---- MODULE Spec2Model ----
(***************************************************************************)
(* One-time-secret backend: the secret lifecycle engine.                   *)
(*                                                                         *)
(* The model covers the HTTP handlers CreateSecret, GetSecret (atomic      *)
(* consume) and BurnSecret of internal/api, the request validator of       *)
(* internal/validation, the id generator of internal/crypto and the        *)
(* expiration sweeper of internal/cleanup, running against one PostgreSQL   *)
(* table `secrets` (READ COMMITTED, row locks taken by SELECT .. FOR UPDATE *)
(* and by DELETE).                                                          *)
(*                                                                         *)
(* Strings are sequences of one-character strings, byte slices are         *)
(* sequences of numbers 0..255, time is counted in seconds.                *)
(***************************************************************************)
EXTENDS Integers, Sequences, FiniteSets, TLC

(***************************************************************************)
(* Bounds of the model                                                     *)
(***************************************************************************)

\* number of concurrent request-handling tasks
NumProcs == 2

\* number of requests started over a whole run
MaxCalls == 3

Procs == 1..NumProcs

(***************************************************************************)
(* Program constants                                                       *)
(***************************************************************************)

\* validator.go: MinSecretSize = 1
MinSecretSize == 1

\* validator.go: MinTTL = 5 * time.Minute, in seconds
MinTTL == 300

\* validator.go: MaxTTL = 24 * time.Hour, in seconds
MaxTTL == 86400

\* validator.go: len(iv) != 12
IVSize == 12

\* validator.go: len(salt) < 16
MinSaltSize == 16

\* crypto: SecretIDLength = 16 bytes
SecretIDLength == 16

\* validator.go: SecretIDPattern = ^[A-Za-z0-9_-]{22}$
SecretIDChars == 22

\* config.Load: cfg.MaxSecretSize, read from MAX_SECRET_SIZE; the model runs
\* with MAX_SECRET_SIZE=3
CfgMaxSecretSize == 3

\* net/http status codes used by the handlers
StatusOK == 200
StatusCreated == 201
StatusNoContent == 204
StatusBadRequest == 400
StatusNotFound == 404
StatusRequestEntityTooLarge == 413
StatusTooManyRequests == 429
StatusInternalServerError == 500

(***************************************************************************)
(* encoding/base64                                                         *)
(***************************************************************************)

Rep(c, n) == [i \in 1..n |-> c]

Upper == <<"A","B","C","D","E","F","G","H","I","J","K","L","M",
           "N","O","P","Q","R","S","T","U","V","W","X","Y","Z">>
Lower == <<"a","b","c","d","e","f","g","h","i","j","k","l","m",
           "n","o","p","q","r","s","t","u","v","w","x","y","z">>
Digits == <<"0","1","2","3","4","5","6","7","8","9">>

\* base64.StdEncoding alphabet
StdAlphabet == Upper \o Lower \o Digits \o <<"+", "/">>

\* base64.URLEncoding alphabet
URLAlphabet == Upper \o Lower \o Digits \o <<"-", "_">>

PadChar == "="

IsNewline(c) == c \in {"\n", "\r"}

InAlphabet(alphabet, c) == \E i \in 1..64 : alphabet[i] = c

\* decodeMap: the 6-bit value of a character of the alphabet
Sextet(alphabet, c) == (CHOOSE i \in 1..64 : alphabet[i] = c) - 1

\* the decoder skips '\r' and '\n' wherever they stand
RECURSIVE SkipNewlines(_)
SkipNewlines(s) ==
    IF s = <<>> THEN <<>>
    ELSE IF IsNewline(Head(s)) THEN SkipNewlines(Tail(s))
    ELSE <<Head(s)>> \o SkipNewlines(Tail(s))

DecodeError == [ok |-> FALSE, bytes |-> <<>>]

\* Encoding.decodeQuantum over a newline-free input, non-strict, padded:
\* four characters give three bytes; "xx==" gives one byte and "xxx=" two,
\* only as the last quantum; the unused low bits of the last character are
\* not checked.
RECURSIVE DecodeQuanta(_, _)
DecodeQuanta(alphabet, t) ==
    IF t = <<>> THEN [ok |-> TRUE, bytes |-> <<>>]
    ELSE IF Len(t) < 4 THEN DecodeError
    ELSE IF ~(InAlphabet(alphabet, t[1]) /\ InAlphabet(alphabet, t[2])) THEN DecodeError
    ELSE
      LET a == Sextet(alphabet, t[1])
          b == Sextet(alphabet, t[2])
          b0 == (a * 4 + (b \div 16)) % 256
      IN  IF t[3] = PadChar
          THEN IF t[4] = PadChar /\ Len(t) = 4
               THEN [ok |-> TRUE, bytes |-> <<b0>>]
               ELSE DecodeError
          ELSE IF ~InAlphabet(alphabet, t[3]) THEN DecodeError
          ELSE
            LET c == Sextet(alphabet, t[3])
                b1 == ((b % 16) * 16 + (c \div 4)) % 256
            IN  IF t[4] = PadChar
                THEN IF Len(t) = 4
                     THEN [ok |-> TRUE, bytes |-> <<b0, b1>>]
                     ELSE DecodeError
                ELSE IF ~InAlphabet(alphabet, t[4]) THEN DecodeError
                ELSE
                  LET d == Sextet(alphabet, t[4])
                      b2 == ((c % 4) * 64 + d) % 256
                      rest == DecodeQuanta(alphabet, SubSeq(t, 5, Len(t)))
                  IN  IF rest.ok
                      THEN [ok |-> TRUE, bytes |-> <<b0, b1, b2>> \o rest.bytes]
                      ELSE DecodeError

\* base64.StdEncoding.DecodeString
StdDecodeString(s) == DecodeQuanta(StdAlphabet, SkipNewlines(s))

\* Encoding.Encode: three bytes give four characters; a last group of one or
\* two bytes is padded with '=' when `padded`, cut short otherwise
RECURSIVE Encode(_, _, _)
Encode(alphabet, padded, bytes) ==
    IF bytes = <<>> THEN <<>>
    ELSE IF Len(bytes) = 1 THEN
        <<alphabet[(bytes[1] \div 4) + 1], alphabet[((bytes[1] % 4) * 16) + 1]>>
        \o (IF padded THEN <<PadChar, PadChar>> ELSE <<>>)
    ELSE IF Len(bytes) = 2 THEN
        <<alphabet[(bytes[1] \div 4) + 1],
          alphabet[((bytes[1] % 4) * 16 + (bytes[2] \div 16)) + 1],
          alphabet[((bytes[2] % 16) * 4) + 1]>>
        \o (IF padded THEN <<PadChar>> ELSE <<>>)
    ELSE
        <<alphabet[(bytes[1] \div 4) + 1],
          alphabet[((bytes[1] % 4) * 16 + (bytes[2] \div 16)) + 1],
          alphabet[((bytes[2] % 16) * 4 + (bytes[3] \div 64)) + 1],
          alphabet[(bytes[3] % 64) + 1]>>
        \o Encode(alphabet, padded, SubSeq(bytes, 4, Len(bytes)))

\* base64.StdEncoding.EncodeToString
StdEncodeToString(bytes) == Encode(StdAlphabet, TRUE, bytes)

\* base64.RawURLEncoding.EncodeToString
RawURLEncodeToString(bytes) == Encode(URLAlphabet, FALSE, bytes)

(***************************************************************************)
(* int64 and time.Duration                                                 *)
(*                                                                         *)
(* A Go int (64 bits on the platforms the server is built for) and a       *)
(* time.Duration are int64 values in two's complement.  They are modelled   *)
(* as their eight bytes, lowest first, so that arithmetic wraps as it does  *)
(* in Go.                                                                  *)
(***************************************************************************)

\* the k lowest bytes of the two's complement of the integer n
RECURSIVE LowBytes(_, _)
LowBytes(n, k) ==
    IF k = 0 THEN <<>> ELSE <<n % 256>> \o LowBytes(n \div 256, k - 1)

\* int64(n)
Int64(n) == LowBytes(n, 8)

\* bytes k..8 of a + b, given the carry into byte k
RECURSIVE AddFrom(_, _, _, _)
AddFrom(a, b, k, carry) ==
    IF k > 8 THEN <<>>
    ELSE LET sum == a[k] + b[k] + carry
         IN  <<sum % 256>> \o AddFrom(a, b, k + 1, sum \div 256)

\* a + b on int64, wrapping
AddInt64(a, b) == AddFrom(a, b, 1, 0)

\* the sum of the byte products that fall on byte k of a * b
RECURSIVE ColumnSum(_, _, _, _)
ColumnSum(a, b, k, i) ==
    IF i > k THEN 0 ELSE a[i] * b[k + 1 - i] + ColumnSum(a, b, k, i + 1)

\* bytes k..8 of a * b, given the carry into byte k
RECURSIVE MulFrom(_, _, _, _)
MulFrom(a, b, k, carry) ==
    IF k > 8 THEN <<>>
    ELSE LET sum == ColumnSum(a, b, k, 1) + carry
         IN  <<sum % 256>> \o MulFrom(a, b, k + 1, sum \div 256)

\* a * b on int64, wrapping
MulInt64(a, b) == MulFrom(a, b, 1, 0)

\* a < 0 on int64
NegativeInt64(a) == a[8] >= 128

\* a < b as unsigned numbers, comparing from byte k down
RECURSIVE BelowFrom(_, _, _)
BelowFrom(a, b, k) ==
    IF k = 0 THEN FALSE
    ELSE IF a[k] # b[k] THEN a[k] < b[k]
    ELSE BelowFrom(a, b, k - 1)

\* a < b on int64
LessInt64(a, b) ==
    IF NegativeInt64(a) # NegativeInt64(b) THEN NegativeInt64(a)
    ELSE BelowFrom(a, b, 8)

\* time.Second, in nanoseconds
Second == Int64(1000000000)

\* the whole seconds of a Duration d >= 0 below 2^31 seconds: d \div 10^9,
\* computed as (d \div 2^8) \div (10^9 \div 2^8), byte by byte from the top
RECURSIVE QuotientFrom(_, _, _, _)
QuotientFrom(d, k, quotient, remainder) ==
    IF k < 2 THEN quotient
    ELSE LET part == remainder * 256 + d[k]
         IN  QuotientFrom(d, k - 1, quotient * 256 + (part \div 3906250), part % 3906250)

\* a duration that adds nothing to a time
NoSeconds(d) == 0

WholeSeconds(d) == QuotientFrom(d, 8, 0, 0)

(***************************************************************************)
(* internal/validation                                                     *)
(***************************************************************************)

NoError == "nil"
ErrInvalidCiphertext == "invalid ciphertext format"
ErrInvalidIV == "invalid IV format"
ErrInvalidSalt == "invalid salt format"
ErrInvalidSecretID == "invalid secret ID"
ErrInvalidTTL == "invalid TTL value"
ErrSecretTooLarge == "secret exceeds maximum size"

\* validation.CreateSecretRequest; a nil byte slice is the empty sequence
NoRequest ==
    [Ciphertext |-> <<>>, IV |-> <<>>, Salt |-> <<>>, ExpiresIn |-> Int64(0),
     BurnAfterRead |-> FALSE]

Rejected(err) == [err |-> err, req |-> NoRequest]

\* MinTTL and MaxTTL as Durations
MinTTLDuration == MulInt64(Int64(MinTTL), Second)
MaxTTLDuration == MulInt64(Int64(MaxTTL), Second)

\* bytes of a text that may be absent: the salt is decoded only if given
DecodeIfGiven(text) ==
    IF text # <<>> THEN StdDecodeString(text) ELSE [ok |-> TRUE, bytes |-> <<>>]

\* a size check that takes maxSize itself for too large
CheckCiphertextBelowMax(ciphertextB64, maxSize) ==
    LET ciphertext == StdDecodeString(ciphertextB64)
    IN  IF ciphertextB64 = <<>> THEN ErrInvalidCiphertext
        ELSE IF ~ciphertext.ok THEN ErrInvalidCiphertext
        ELSE IF Len(ciphertext.bytes) < MinSecretSize THEN ErrInvalidCiphertext
        ELSE IF Len(ciphertext.bytes) >= maxSize THEN ErrSecretTooLarge
        ELSE NoError

\* ValidateCreateRequest, the checks of the ciphertext
CheckCiphertext(ciphertextB64, maxSize) ==
    LET ciphertext == StdDecodeString(ciphertextB64)
    IN  IF ciphertextB64 = <<>> THEN ErrInvalidCiphertext
        ELSE IF ~ciphertext.ok THEN ErrInvalidCiphertext
        ELSE IF Len(ciphertext.bytes) < MinSecretSize THEN ErrInvalidCiphertext
        ELSE IF Len(ciphertext.bytes) > maxSize THEN ErrSecretTooLarge
        ELSE NoError

\* an IV check that rejects only an IV that is too short
CheckIVAtLeast(ivB64) ==
    LET iv == StdDecodeString(ivB64)
    IN  IF ivB64 = <<>> THEN ErrInvalidIV
        ELSE IF ~iv.ok THEN ErrInvalidIV
        ELSE IF Len(iv.bytes) < IVSize THEN ErrInvalidIV
        ELSE NoError

\* ValidateCreateRequest, the checks of the IV
CheckIV(ivB64) ==
    LET iv == StdDecodeString(ivB64)
    IN  IF ivB64 = <<>> THEN ErrInvalidIV
        ELSE IF ~iv.ok THEN ErrInvalidIV
        ELSE IF Len(iv.bytes) # IVSize THEN ErrInvalidIV
        ELSE NoError

\* a salt check that does not look at the length
CheckSaltAnyLength(saltB64) ==
    IF ~DecodeIfGiven(saltB64).ok THEN ErrInvalidSalt ELSE NoError

\* ValidateCreateRequest, the checks of the salt
CheckSalt(saltB64) ==
    LET salt == DecodeIfGiven(saltB64)
    IN  IF ~salt.ok THEN ErrInvalidSalt
        ELSE IF saltB64 # <<>> /\ Len(salt.bytes) < MinSaltSize THEN ErrInvalidSalt
        ELSE NoError

\* ValidateCreateRequest, the check of the TTL; expiresIn is an int, ttl is
\* time.Duration(expiresIn) * time.Second
CheckTTL(expiresIn) ==
    LET ttl == MulInt64(expiresIn, Second)
    IN  IF LessInt64(ttl, MinTTLDuration) \/ LessInt64(MaxTTLDuration, ttl)
        THEN ErrInvalidTTL
        ELSE NoError

\* a returned request that leaves burn_after_read off
ValidatedRequestBurnOff(ciphertextB64, ivB64, saltB64, expiresIn) ==
    [Ciphertext |-> StdDecodeString(ciphertextB64).bytes,
     IV |-> StdDecodeString(ivB64).bytes,
     Salt |-> DecodeIfGiven(saltB64).bytes,
     ExpiresIn |-> MulInt64(expiresIn, Second),
     BurnAfterRead |-> FALSE]

\* ValidateCreateRequest, the request it returns
ValidatedRequest(ciphertextB64, ivB64, saltB64, expiresIn) ==
    [Ciphertext |-> StdDecodeString(ciphertextB64).bytes,
     IV |-> StdDecodeString(ivB64).bytes,
     Salt |-> DecodeIfGiven(saltB64).bytes,
     ExpiresIn |-> MulInt64(expiresIn, Second),
     BurnAfterRead |-> TRUE]

\* a validation that checks the TTL before the other fields
ValidateCreateRequestTTLFirst(ciphertextB64, ivB64, saltB64, expiresIn, maxSize) ==
    IF CheckTTL(expiresIn) # NoError THEN Rejected(CheckTTL(expiresIn))
    ELSE IF CheckCiphertext(ciphertextB64, maxSize) # NoError
    THEN Rejected(CheckCiphertext(ciphertextB64, maxSize))
    ELSE IF CheckIV(ivB64) # NoError THEN Rejected(CheckIV(ivB64))
    ELSE IF CheckSalt(saltB64) # NoError THEN Rejected(CheckSalt(saltB64))
    ELSE [err |-> NoError,
          req |-> ValidatedRequest(ciphertextB64, ivB64, saltB64, expiresIn)]

\* ValidateCreateRequest: the checks in the order of the code, the first
\* that fails giving the error
ValidateCreateRequest(ciphertextB64, ivB64, saltB64, expiresIn, maxSize) ==
    IF CheckCiphertext(ciphertextB64, maxSize) # NoError
    THEN Rejected(CheckCiphertext(ciphertextB64, maxSize))
    ELSE IF CheckIV(ivB64) # NoError THEN Rejected(CheckIV(ivB64))
    ELSE IF CheckSalt(saltB64) # NoError THEN Rejected(CheckSalt(saltB64))
    ELSE IF CheckTTL(expiresIn) # NoError THEN Rejected(CheckTTL(expiresIn))
    ELSE [err |-> NoError,
          req |-> ValidatedRequest(ciphertextB64, ivB64, saltB64, expiresIn)]

\* secretIDRegex.MatchString: ^[A-Za-z0-9_-]{22}$
MatchesSecretIDPattern(id) ==
    /\ Len(id) = SecretIDChars
    /\ \A i \in 1..Len(id) : InAlphabet(URLAlphabet, id[i])

\* a check of the length alone
ValidateSecretIDLengthOnly(id) ==
    IF Len(id) # SecretIDChars THEN ErrInvalidSecretID ELSE NoError

\* ValidateSecretID
ValidateSecretID(id) ==
    IF id = <<>> THEN ErrInvalidSecretID
    ELSE IF ~MatchesSecretIDPattern(id) THEN ErrInvalidSecretID
    ELSE NoError

(***************************************************************************)
(* internal/crypto                                                         *)
(***************************************************************************)

\* an id in the standard, padded base64
GenerateSecretIDStd(bytes) == StdEncodeToString(bytes)

\* GenerateSecretID, given the bytes rand.Read filled in
GenerateSecretID(bytes) == RawURLEncodeToString(bytes)

(***************************************************************************)
(* errors                                                                  *)
(***************************************************************************)

\* An error value of errors.New is a pointer: two calls with the same text
\* give two different errors.  `site` names the call that made the value.
ErrorsNew(site, text) == [site |-> site, text |-> text]

\* pgx.ErrNoRows, made once when package pgx is initialised
PgxErrNoRows == ErrorsNew("pgx.ErrNoRows", "no rows in result set")

\* any other error of the driver (connection lost, context cancelled, ...)
PgxOtherError == ErrorsNew("pgx", "other")

\* errors.Is for comparable error values without an Is method: identity
ErrorsIs(err, target) == err.site = target.site

(***************************************************************************)
(* Inputs of the model                                                     *)
(***************************************************************************)

\* what rand.Read fills in
RandomDraws == {Rep(0, SecretIDLength)}

GeneratedIDs == {GenerateSecretID(b) : b \in RandomDraws}

\* the draws where two secrets are stored side by side, and their ids
TwoDraws == RandomDraws \cup {Rep(255, SecretIDLength)}

TwoIDs == {GenerateSecretID(b) : b \in TwoDraws}

\* an id of the wrong length ("not-valid-id" of the handler tests)
MalformedID == <<"n","o","t","-","v","a","l","i","d","-","i","d">>

\* ids of GET and DELETE requests
RequestIDs == GeneratedIDs \cup {MalformedID}

\* ids that do not match the pattern: empty, too short, one character too
\* long, and of the right length with "+", "/" or "=" in them
\* (TestValidateSecretID)
BadIDs ==
    { <<>>,
      <<"a","b","c","1","2","3">>,
      Rep("A", SecretIDChars + 1),
      Rep("A", SecretIDChars - 2) \o <<"+","+">>,
      Rep("A", SecretIDChars - 2) \o <<"/","/">>,
      Rep("A", SecretIDChars - 2) \o <<"=","=">>,
      Rep("A", SecretIDChars - 1) \o <<"\n">> }

\* ids of the requests that try the format check
FormatIDs == GeneratedIDs \cup BadIDs

\* base64 texts of request bodies
TextA == <<"Q","Q","=","=">>
TextBLoose == <<"Q","h","=","=">>
TextABC == <<"Q","U","\n","J","D">>
TextTooLarge == StdEncodeToString(Rep(65, CfgMaxSecretSize + 1))
TextIV == StdEncodeToString(Rep(0, IVSize))
TextIVWrapped == StdEncodeToString(Rep(1, IVSize)) \o <<"\r", "\n">>
TextIVShort == StdEncodeToString(Rep(0, IVSize - 1))
TextSalt == StdEncodeToString(Rep(7, MinSaltSize))
TextSaltShort == StdEncodeToString(Rep(7, MinSaltSize - 1))

\* models.CreateSecretRequest as json.Decode fills it in; an omitted salt is
\* "", expires_in is an int
Body(c, iv, salt, ttl, burn) ==
    [wellformed |-> TRUE, Ciphertext |-> c, IV |-> iv, Salt |-> salt,
     ExpiresIn |-> Int64(ttl), BurnAfterRead |-> burn]

\* a body json.Decode rejects ("{" of the handler tests)
MalformedBody ==
    [wellformed |-> FALSE, Ciphertext |-> <<>>, IV |-> <<>>, Salt |-> <<>>,
     ExpiresIn |-> Int64(0), BurnAfterRead |-> FALSE]

\* the bodies the validator accepts; a row remembers its body by its place
\* in this list
ValidBodyList ==
    << Body(TextBLoose, TextIVWrapped, TextSalt, MinTTL, FALSE),
       Body(TextA, TextIV, <<>>, MinTTL, TRUE),
       Body(TextABC, TextIV, TextSalt, MaxTTL, TRUE),
       Body(TextA, TextIVWrapped, <<>>, MaxTTL, FALSE) >>

ValidBodies == {ValidBodyList[i] : i \in 1..Len(ValidBodyList)}

BodyIndex(body) == CHOOSE i \in 1..Len(ValidBodyList) : ValidBodyList[i] = body

InvalidBodies ==
    { MalformedBody,
      Body(TextTooLarge, TextIV, <<>>, MinTTL - 1, TRUE),
      Body(TextA, TextIVShort, TextSaltShort, MinTTL, TRUE) }

\* the bodies of the requests that race for one secret
CreateBodies == {ValidBodyList[1]} \cup InvalidBodies

\* the bodies of the requests that are served one at a time
SerialBodies == ValidBodies \cup InvalidBodies

\* the validator's verdict on each body, as CreateSecret calls it
\* (maxSize is h.cfg.MaxSecretSize)
Validated ==
    [b \in CreateBodies \cup SerialBodies |->
        ValidateCreateRequest(b.Ciphertext, b.IV, b.Salt, b.ExpiresIn, CfgMaxSecretSize)]

\* the id crypto.GenerateSecretID returns for each draw
SecretIDOf == [d \in TwoDraws |-> GenerateSecretID(d)]

\* the verdict of validation.ValidateSecretID on each id of a request
IDError == [id \in TwoIDs \cup {MalformedID} \cup BadIDs |-> ValidateSecretID(id)]

\* the readings of the wall clock, in seconds
ClockTicks == <<0, MinTTL, MinTTL + 1>>

(***************************************************************************)
(* State                                                                   *)
(***************************************************************************)

VARIABLES
    clock,      \* index of the current reading of the wall clock in ClockTicks
    table,      \* the rows of table secrets
    locks,      \* row locks held by open transactions and running statements
    calls,      \* per request task: the request it serves and where it stands
    sweeper,    \* the cleanup worker
    reads,      \* history: per inserted row, in order of insertion (its
                \* serial), the number of responses that carried its content
    burned,     \* history: the rows a DELETE of BurnSecret removed, by id
                \* and serial
    started,    \* number of requests started so far
    probe,      \* a part of the program run on its own: which one (fn) and
                \* its state: for a pure function its argument and, once it
                \* has returned, its result; for db.New its locals; for the
                \* ViewSecret page its useState values
    loop,       \* the loop of Worker.Start: its ticker, its stop channel and,
                \* as history, the ticks and passes counted
    limiter     \* the RateLimiter: its map and, as history, what it admitted

vars == <<clock, table, locks, calls, sweeper, reads, burned, started, probe, loop,
          limiter>>

\* time.Now() / NOW()
Now == ClockTicks[clock]

\* the holder of a lock that is the cleanup worker's DELETE statement
SweeperTx == 0

\* models.Secret as scanned from a row.  Two fields are history: serial
\* (which insert made the row) and posted (which body of ValidBodyList the
\* request that made it carried).
NoRow ==
    [id |-> <<>>, ciphertext |-> <<>>, iv |-> <<>>, salt |-> <<>>,
     expires_at |-> 0, burn_after_read |-> FALSE, created_at |-> 0,
     serial |-> 0, posted |-> 0]

\* history: what a request keeps of the row its id had when it arrived, and
\* whether that row was expired then
Seen(row) ==
    [serial |-> row.serial, expires_at |-> row.expires_at,
     expired |-> row.serial # 0 /\ Now > row.expires_at]

HasRow(id) == \E r \in table : r.id = id

RowOf(id) == IF HasRow(id) THEN CHOOSE r \in table : r.id = id ELSE NoRow

\* a SELECT without FOR UPDATE: no lock makes it wait
NeverLocked(id, tx) == FALSE

\* the row is locked by a transaction other than tx
LockedByOther(id, tx) == \E l \in locks : l.id = id /\ l.holder # tx

\* another transaction has deleted the row and not yet committed
DeletePending(id) == \E l \in locks : l.id = id /\ l.deleted

\* a transaction whose end leaves its locks in place
ReleasedNever(tx) == locks

\* locks after transaction tx ended (commit or rollback)
Released(tx) == {l \in locks : l.holder # tx}

(***************************************************************************)
(* HTTP responses                                                          *)
(***************************************************************************)

NoBody ==
    [kind |-> "none", error |-> "", message |-> "",
     ciphertext |-> <<>>, iv |-> <<>>, salt |-> <<>>, id |-> <<>>]

NoResponse == [status |-> 0, body |-> NoBody]

\* http.StatusText
StatusText(status) ==
    CASE status = StatusBadRequest -> "Bad Request"
      [] status = StatusNotFound -> "Not Found"
      [] status = StatusRequestEntityTooLarge -> "Request Entity Too Large"
      [] status = StatusInternalServerError -> "Internal Server Error"
      [] OTHER -> ""

\* Handler.respondError
respondError(status, message) ==
    [status |-> status,
     body |-> [NoBody EXCEPT !.kind = "error", !.error = StatusText(status),
                             !.message = message]]

\* a response encoded with the alphabet of the ids, unpadded
GetSecretResponseRawURL(ciphertext, iv, salt) ==
    [status |-> StatusOK,
     body |-> [NoBody EXCEPT !.kind = "secret",
                  !.ciphertext = RawURLEncodeToString(ciphertext),
                  !.iv = RawURLEncodeToString(iv),
                  !.salt = IF Len(salt) > 0 THEN RawURLEncodeToString(salt) ELSE <<>>]]

\* models.GetSecretResponse, written with the default status 200; salt is
\* omitempty
GetSecretResponse(ciphertext, iv, salt) ==
    [status |-> StatusOK,
     body |-> [NoBody EXCEPT !.kind = "secret",
                  !.ciphertext = StdEncodeToString(ciphertext),
                  !.iv = StdEncodeToString(iv),
                  !.salt = IF Len(salt) > 0 THEN StdEncodeToString(salt) ELSE <<>>]]

\* models.CreateSecretResponse with status 201
CreateSecretResponse(id) ==
    [status |-> StatusCreated, body |-> [NoBody EXCEPT !.kind = "id", !.id = id]]

\* w.WriteHeader(http.StatusNoContent)
NoContentResponse == [status |-> StatusNoContent, body |-> NoBody]

(***************************************************************************)
(* Request tasks                                                           *)
(***************************************************************************)

\* How a call of the driver (Begin, QueryRow, Exec, Commit) with the request
\* context ends: "ok", "error" (the storage failed) or "cancelled" (the
\* context was cancelled or its deadline passed before the call was through;
\* the driver then reports an error and drops the connection, which rolls
\* the transaction back).
DriverOutcomes == {"ok", "error", "cancelled"}

\* the fault a failed driver call leaves on record
FaultOf(outcome) == IF outcome = "cancelled" THEN "cancelled" ELSE "storage"

\* A task that serves no request.  Four fields are history: seen (the row
\* of the request's id when the request arrived), after (whether a DELETE of
\* BurnSecret had removed a row of that id by then), fault (what made a
\* driver call of the request fail) and ctx (whether the request's context
\* was cancelled).
IdleCall ==
    [op |-> "none", pc |-> "idle", id |-> <<>>,
     ctx |-> "live", tx |-> "none", got |-> NoRow, resp |-> NoResponse,
     fault |-> "none", seen |-> Seen(NoRow), after |-> FALSE]

\* the handler returned after writing resp; the deferred Rollback and the
\* end of the request leave no transaction behind
Finished(c, resp, fault) ==
    [c EXCEPT !.pc = "done", !.tx = "none", !.resp = resp, !.fault = fault,
              !.ctx = IF fault = "cancelled" THEN "cancelled" ELSE c.ctx]

\* a request arrives and a free task takes it; the tasks being
\* interchangeable, the one of the lowest number does
Arrives(p) ==
    /\ calls[p].pc = "idle"
    /\ \A q \in Procs : q < p => calls[q].pc # "idle"
    /\ started < MaxCalls
    /\ started' = started + 1

\* a Start that goes to its loop without a first pass
WorkerEntryInLoop == "ticker"

\* where Worker.Start begins: with w.cleanup(), before the ticker is made
WorkerEntry == "immediate"

\* Worker.Start not yet entered: no ticker, nothing counted
NoLoop ==
    [ticker |-> "none", tick |-> 0, stop |-> FALSE, returned |-> FALSE,
     fired |-> 0, dropped |-> 0, received |-> 0, passes |-> 0, failed |-> FALSE]

\* the keys the RateLimiter is asked with (r.RemoteAddr or X-Forwarded-For)
LimitKeys == {"10.0.0.1", "10.0.0.2"}

\* no call of allow yet
NoAnswer == [ip |-> "", ok |-> FALSE, at |-> 0, before |-> 0, calls |-> 0]

\* RateLimit(maxRequests, window): the limiter it makes, its map empty.  The
\* wall clock of the limiter is now, in seconds.  Two fields are history:
\* admitted (per key, the times of the requests allow let through) and
\* answer (the last call of allow: its key, its result, its time, how many
\* requests of the key were admitted within the window before it, and how
\* many calls there were)
NewLimiter(maxRequests, window) ==
    [maxReq |-> maxRequests, window |-> window, now |-> 0,
     requests |-> [ip \in LimitKeys |-> [exists |-> FALSE, times |-> <<>>]],
     admitted |-> [ip \in LimitKeys |-> <<>>],
     answer |-> NoAnswer]

\* a RateLimiter nobody asks
NoLimiter == NewLimiter(0, 0)

\* no function is applied on its own
NoProbe == [fn |-> "none", arg |-> <<>>, returned |-> FALSE, result |-> <<>>]

Init ==
    /\ clock = 1
    /\ table = {}
    /\ locks = {}
    /\ calls = [p \in Procs |-> IdleCall]
    /\ sweeper = [pc |-> WorkerEntry, cutoff |-> 0]
    /\ reads = <<>>
    /\ burned = {}
    /\ started = 0
    /\ loop = NoLoop
    /\ limiter = NoLimiter
    /\ probe = NoProbe

(***************************************************************************)
(* Handler.CreateSecret                                                    *)
(***************************************************************************)

\* a status mapping that does not single out ErrSecretTooLarge
ValidationStatusBadRequest(err) == StatusBadRequest

\* the status of a validation error (errors.Is(err, ErrSecretTooLarge))
ValidationStatus(err) ==
    IF err = ErrSecretTooLarge THEN StatusRequestEntityTooLarge ELSE StatusBadRequest

\* CreateSecret up to the INSERT: decode the body, validate it, generate the
\* id and take the two readings of time.Now().  The clock reads whole
\* seconds, so expires_at is kept in whole seconds: a fraction of a second
\* in it changes no comparison with a reading of the clock.
CreateSecretPrepare(p, body, randOK, draw) ==
    LET c == [calls[p] EXCEPT !.op = "create"]
        v == Validated[body]
        secretID == SecretIDOf[draw]
        row == [id |-> secretID,
                ciphertext |-> v.req.Ciphertext,
                iv |-> v.req.IV,
                salt |-> v.req.Salt,
                expires_at |-> Now + WholeSeconds(v.req.ExpiresIn),
                burn_after_read |-> v.req.BurnAfterRead,
                created_at |-> Now,
                serial |-> 0,
                posted |-> IF body \in ValidBodies THEN BodyIndex(body) ELSE 0]
    IN  /\ Arrives(p)
        /\ calls' = [calls EXCEPT ![p] =
              IF ~body.wellformed
              THEN Finished(c, respondError(StatusBadRequest, "invalid request body"), "none")
              ELSE IF v.err # NoError
              THEN Finished(c, respondError(ValidationStatus(v.err), v.err), "none")
              ELSE IF ~randOK
              THEN Finished(c, respondError(StatusInternalServerError,
                                            "failed to generate secret ID"), "none")
              ELSE [c EXCEPT !.pc = "insert", !.id = secretID, !.got = row]]
        /\ UNCHANGED <<clock, table, locks, sweeper, reads, burned, probe, loop>>

\* an INSERT that replaces a row of the same primary key
CreateSecretInsertReplacing(p, outcome) ==
    LET c == calls[p]
        row == [c.got EXCEPT !.serial = Len(reads) + 1]
    IN  /\ c.pc = "insert"
        /\ IF outcome # "ok"
           THEN /\ calls' = [calls EXCEPT ![p] =
                      Finished(c, respondError(StatusInternalServerError,
                                               "failed to store secret"), FaultOf(outcome))]
                /\ UNCHANGED <<table, reads, burned>>
           ELSE /\ ~DeletePending(c.id)
                /\ table' = {r \in table : r.id # c.id} \cup {row}
                /\ reads' = Append(reads, 0)
                /\ UNCHANGED burned
                /\ calls' = [calls EXCEPT ![p] =
                      Finished([c EXCEPT !.got = row], CreateSecretResponse(c.id), "none")]
        /\ UNCHANGED <<clock, locks, sweeper, started, probe, loop, limiter>>

\* the INSERT statement of CreateSecret and the response.  A row with the
\* same primary key fails the statement; while the delete of such a row is
\* not yet committed the statement waits.
CreateSecretInsert(p, outcome) ==
    LET c == calls[p]
        row == [c.got EXCEPT !.serial = Len(reads) + 1]
    IN  /\ c.pc = "insert"
        /\ IF outcome # "ok"
           THEN /\ calls' = [calls EXCEPT ![p] =
                      Finished(c, respondError(StatusInternalServerError,
                                               "failed to store secret"), FaultOf(outcome))]
                /\ UNCHANGED <<table, reads, burned>>
           ELSE IF HasRow(c.id)
           THEN /\ ~DeletePending(c.id)
                /\ calls' = [calls EXCEPT ![p] =
                      Finished(c, respondError(StatusInternalServerError,
                                               "failed to store secret"), "duplicate")]
                /\ UNCHANGED <<table, reads, burned>>
           ELSE /\ table' = table \cup {row}
                /\ reads' = Append(reads, 0)
                /\ UNCHANGED burned
                /\ calls' = [calls EXCEPT ![p] =
                      Finished([c EXCEPT !.got = row], CreateSecretResponse(c.id), "none")]
        /\ UNCHANGED <<clock, locks, sweeper, started, probe, loop, limiter>>

(***************************************************************************)
(* Handler.GetSecret                                                       *)
(***************************************************************************)

\* GetSecret up to the transaction: validate the id, Begin
GetSecretBegin(p, id, outcome) ==
    LET c == [calls[p] EXCEPT !.op = "get", !.id = id, !.seen = Seen(RowOf(id)),
                              !.after = \E b \in burned : b.id = id]
    IN  /\ Arrives(p)
        /\ calls' = [calls EXCEPT ![p] =
              IF IDError[id] # NoError
              THEN Finished(c, respondError(StatusNotFound, "not found"), "none")
              ELSE IF outcome # "ok"
              THEN Finished(c, respondError(StatusInternalServerError, "database error"),
                            FaultOf(outcome))
              ELSE [c EXCEPT !.pc = "select", !.tx = "open"]]
        /\ UNCHANGED <<clock, table, locks, sweeper, reads, burned, probe, loop>>

\* the branch on the error of QueryRow(..).Scan(..): the handler compares
\* the error with a value it makes on the spot by errors.New
QueryErrorResponse(err) ==
    IF ErrorsIs(err, ErrorsNew("GetSecret", "no rows in result set"))
    THEN respondError(StatusNotFound, "not found")
    ELSE respondError(StatusInternalServerError, "database error")

\* SELECT .. FOR UPDATE: waits while another transaction holds the row's
\* lock, then sees the row as that transaction left it
GetSecretSelect(p, outcome) ==
    LET c == calls[p]
    IN  /\ c.pc = "select"
        /\ IF outcome # "ok"
           THEN /\ calls' = [calls EXCEPT ![p] =
                      Finished(c, QueryErrorResponse(PgxOtherError), FaultOf(outcome))]
                /\ UNCHANGED locks
           ELSE IF ~HasRow(c.id)
           THEN /\ calls' = [calls EXCEPT ![p] =
                      Finished(c, QueryErrorResponse(PgxErrNoRows), "none")]
                /\ UNCHANGED locks
           ELSE /\ ~LockedByOther(c.id, p)
                /\ locks' = locks \cup {[id |-> c.id, holder |-> p, deleted |-> FALSE]}
                /\ calls' = [calls EXCEPT ![p] =
                      [c EXCEPT !.pc = "check", !.got = RowOf(c.id)]]
        /\ UNCHANGED <<clock, table, sweeper, reads, burned, started, probe, loop, limiter>>

\* an expiration check that takes the instant of expiry as expired
ExpiredAtBoundary(row) == Now >= row.expires_at

\* time.Now().After(secret.ExpiresAt)
Expired(row) == Now > row.expires_at

\* locks of p after its DELETE of row id succeeded
DeleteLocked(p, id) ==
    {l \in locks : ~(l.holder = p /\ l.id = id)}
        \cup {[id |-> id, holder |-> p, deleted |-> TRUE]}

\* the expiration check and the DELETE inside the transaction.  For an
\* expired row the error of the DELETE is dropped and the handler goes on to
\* Commit; otherwise a failed DELETE answers 500 and the deferred Rollback
\* ends the transaction.
GetSecretDelete(p, outcome) ==
    LET c == calls[p]
    IN  /\ c.pc = "check"
        /\ IF Expired(c.got)
           THEN /\ calls' = [calls EXCEPT ![p] =
                      [c EXCEPT !.pc = "commit_expired",
                                !.tx = IF outcome = "error" THEN "aborted" ELSE "open",
                                !.ctx = IF outcome = "cancelled" THEN "cancelled" ELSE "live"]]
                /\ locks' = IF outcome = "ok" THEN DeleteLocked(p, c.id) ELSE locks
           ELSE IF outcome = "ok"
           THEN /\ calls' = [calls EXCEPT ![p] = [c EXCEPT !.pc = "commit"]]
                /\ locks' = DeleteLocked(p, c.id)
           ELSE /\ calls' = [calls EXCEPT ![p] =
                      Finished(c, respondError(StatusInternalServerError, "database error"),
                               FaultOf(outcome))]
                /\ locks' = Released(p)
        /\ UNCHANGED <<clock, table, sweeper, reads, burned, started, probe, loop, limiter>>

\* a Commit that does not look at the request's context
CommitOutcomeIgnoringContext(c, outcome) ==
    IF c.tx # "open" THEN "error" ELSE outcome

\* how tx.Commit ends: it fails when the context is already cancelled and
\* when a statement of the transaction failed (the storage then answers the
\* COMMIT with a rollback)
CommitOutcome(c, outcome) ==
    IF c.ctx = "cancelled" THEN "cancelled"
    ELSE IF c.tx # "open" THEN "error"
    ELSE outcome

\* the response of GetSecret after a Commit that succeeded
CommittedResponse(c) ==
    IF c.pc = "commit_expired"
    THEN respondError(StatusNotFound, "not found")
    ELSE GetSecretResponse(c.got.ciphertext, c.got.iv, c.got.salt)

\* a Commit that reports an error after the storage applied it
GetSecretCommitApplied(p, outcome) ==
    LET c == calls[p]
        end == CommitOutcome(c, outcome)
    IN  /\ c.pc \in {"commit", "commit_expired"}
        /\ table' = {r \in table : r.id # c.id}
        /\ IF end = "ok"
           THEN /\ reads' = IF c.pc = "commit"
                            THEN [reads EXCEPT ![c.got.serial] = @ + 1]
                            ELSE reads
                /\ UNCHANGED burned
                /\ calls' = [calls EXCEPT ![p] =
                      Finished(c, CommittedResponse(c), "none")]
           ELSE /\ calls' = [calls EXCEPT ![p] =
                      Finished(c, respondError(StatusInternalServerError, "database error"),
                               FaultOf(end))]
                /\ UNCHANGED <<reads, burned>>
        /\ locks' = Released(p)
        /\ UNCHANGED <<clock, sweeper, started, probe, loop, limiter>>

\* a GetSecret that writes the content whatever Commit returns
GetSecretRespondingUncommitted(p, outcome) ==
    LET c == calls[p]
        end == CommitOutcome(c, outcome)
    IN  /\ c.pc \in {"commit", "commit_expired"}
        /\ table' = IF end = "ok" THEN {r \in table : r.id # c.id} ELSE table
        /\ reads' = IF c.pc = "commit"
                    THEN [reads EXCEPT ![c.got.serial] = @ + 1]
                    ELSE reads
        /\ UNCHANGED burned
        /\ calls' = [calls EXCEPT ![p] =
              Finished(c, CommittedResponse(c), IF end = "ok" THEN "none" ELSE FaultOf(end))]
        /\ locks' = Released(p)
        /\ UNCHANGED <<clock, sweeper, started, probe, loop, limiter>>

\* a GetSecret that answers for an expired row without deleting it
GetSecretCommitKeepingExpired(p, outcome) ==
    LET c == calls[p]
        end == CommitOutcome(c, outcome)
    IN  /\ c.pc \in {"commit", "commit_expired"}
        /\ IF end = "ok"
           THEN /\ table' = IF c.pc = "commit" THEN {r \in table : r.id # c.id} ELSE table
                /\ reads' = IF c.pc = "commit"
                            THEN [reads EXCEPT ![c.got.serial] = @ + 1]
                            ELSE reads
                /\ UNCHANGED burned
                /\ calls' = [calls EXCEPT ![p] =
                      Finished(c, CommittedResponse(c), "none")]
           ELSE /\ calls' = [calls EXCEPT ![p] =
                      Finished(c, respondError(StatusInternalServerError, "database error"),
                               FaultOf(end))]
                /\ UNCHANGED <<table, reads, burned>>
        /\ locks' = Released(p)
        /\ UNCHANGED <<clock, sweeper, started, probe, loop, limiter>>

\* Commit and the response.  A Commit that fails leaves the row as it was.
GetSecretCommit(p, outcome) ==
    LET c == calls[p]
        end == CommitOutcome(c, outcome)
    IN  /\ c.pc \in {"commit", "commit_expired"}
        /\ IF end = "ok"
           THEN /\ table' = {r \in table : r.id # c.id}
                /\ reads' = IF c.pc = "commit"
                            THEN [reads EXCEPT ![c.got.serial] = @ + 1]
                            ELSE reads
                /\ UNCHANGED burned
                /\ calls' = [calls EXCEPT ![p] =
                      Finished(c, CommittedResponse(c), "none")]
           ELSE /\ calls' = [calls EXCEPT ![p] =
                      Finished(c, respondError(StatusInternalServerError, "database error"),
                               FaultOf(end))]
                /\ UNCHANGED <<table, reads, burned>>
        /\ locks' = Released(p)
        /\ UNCHANGED <<clock, sweeper, started, probe, loop, limiter>>

(***************************************************************************)
(* Handler.BurnSecret                                                      *)
(***************************************************************************)

\* BurnSecret up to the DELETE: validate the id
BurnSecretBegin(p, id) ==
    LET c == [calls[p] EXCEPT !.op = "burn", !.id = id, !.seen = Seen(RowOf(id)),
                              !.after = \E b \in burned : b.id = id]
    IN  /\ Arrives(p)
        /\ calls' = [calls EXCEPT ![p] =
              IF IDError[id] # NoError
              THEN Finished(c, respondError(StatusNotFound, "not found"), "none")
              ELSE [c EXCEPT !.pc = "exec"]]
        /\ UNCHANGED <<clock, table, locks, sweeper, reads, burned, probe, loop>>

\* a DELETE that counts only the rows not yet expired
RowsAffectedUnexpired(id) == Cardinality({r \in table : r.id = id /\ ~Expired(r)})

\* result.RowsAffected() of DELETE FROM secrets WHERE id = $1
RowsAffected(id) == Cardinality({r \in table : r.id = id})

\* a BurnSecret that does not look at RowsAffected
BurnResponseNoContent(rowsAffected) == NoContentResponse

\* the response of BurnSecret after a DELETE that succeeded
BurnResponse(rowsAffected) ==
    IF rowsAffected = 0
    THEN respondError(StatusNotFound, "not found")
    ELSE NoContentResponse

\* the DELETE statement (its own transaction) and the response; the
\* statement waits while another transaction holds the row's lock
BurnSecretExec(p, outcome) ==
    LET c == calls[p]
    IN  /\ c.pc = "exec"
        /\ IF outcome # "ok"
           THEN /\ calls' = [calls EXCEPT ![p] =
                      Finished(c, respondError(StatusInternalServerError, "database error"),
                               FaultOf(outcome))]
                /\ UNCHANGED <<table, burned>>
           ELSE /\ ~LockedByOther(c.id, p)
                /\ table' = {r \in table : r.id # c.id}
                /\ burned' = burned \cup {[id |-> r.id, serial |-> r.serial] : r \in {x \in table : x.id = c.id}}
                /\ calls' = [calls EXCEPT ![p] =
                      Finished([c EXCEPT !.got = RowOf(c.id)],
                               BurnResponse(RowsAffected(c.id)), "none")]
        /\ UNCHANGED <<clock, locks, sweeper, reads, started, probe, loop, limiter>>

\* the response has been sent; the task is free for the next request
Return(p) ==
    /\ calls[p].pc = "done"
    /\ calls' = [calls EXCEPT ![p] = IdleCall]
    /\ UNCHANGED <<clock, table, locks, sweeper, reads, burned, started, probe, loop, limiter>>

(***************************************************************************)
(* cleanup.Worker                                                          *)
(***************************************************************************)

\* a statement with the comparison turned round
SweepTargetsUnexpired == {r \in table : r.expires_at > sweeper.cutoff}

\* a statement that also deletes the rows expiring at this very instant
SweepTargetsInclusive == {r \in table : r.expires_at <= sweeper.cutoff}

\* the rows the statement of cleanup deletes: expires_at < NOW(), NOW() being
\* the start of the statement
SweepTargets == {r \in table : r.expires_at < sweeper.cutoff}

\* Worker.cleanup starts its DELETE: at once in Start, then on each tick
WorkerCleanupBegin ==
    /\ sweeper.pc \in {"immediate", "ticker"}
    /\ sweeper' = [sweeper EXCEPT !.pc = "running", !.cutoff = Now]
    /\ UNCHANGED <<clock, table, locks, calls, reads, burned, started, probe, limiter>>

\* the statement deletes one of its rows, waiting while another transaction
\* holds the row's lock
WorkerCleanupRow(id) ==
    /\ sweeper.pc = "running"
    /\ \E r \in SweepTargets : r.id = id
    /\ ~\E l \in locks : l.id = id
    /\ locks' = locks \cup {[id |-> id, holder |-> SweeperTx, deleted |-> TRUE]}
    /\ UNCHANGED <<clock, table, calls, sweeper, reads, burned, started, probe, limiter>>

\* a cleanup that ends the process when its statement fails
WorkerCleanupEndFatal(execOK) ==
    LET mine == {r \in table : \E l \in locks : l.holder = SweeperTx /\ l.id = r.id}
    IN  /\ sweeper.pc = "running"
        /\ IF execOK
           THEN /\ SweepTargets \subseteq mine
                /\ table' = table \ mine
           ELSE UNCHANGED table
        /\ locks' = Released(SweeperTx)
        /\ sweeper' = [sweeper EXCEPT !.pc = IF execOK THEN "ticker" ELSE "exited",
                                      !.cutoff = 0]
        /\ UNCHANGED <<clock, calls, reads, burned, started, probe, limiter>>

\* the statement ends: with every row of its deleted, or with an error and
\* nothing deleted; cleanup returns to the loop of Start
WorkerCleanupEnd(execOK) ==
    LET mine == {r \in table : \E l \in locks : l.holder = SweeperTx /\ l.id = r.id}
    IN  /\ sweeper.pc = "running"
        /\ IF execOK
           THEN /\ SweepTargets \subseteq mine
                /\ table' = table \ mine
           ELSE UNCHANGED table
        /\ locks' = Released(SweeperTx)
        /\ sweeper' = [sweeper EXCEPT !.pc = "ticker", !.cutoff = 0]
        /\ UNCHANGED <<clock, calls, reads, burned, started, probe, limiter>>

(***************************************************************************)
(* config.Load: the rate limit settings                                    *)
(***************************************************************************)

DefaultRateLimitRequests == 30
DefaultRateLimitWindow == 60

\* rateLimitRequests, given what strconv.Atoi made of RATE_LIMIT_REQUESTS
\* (0 when the variable is unset or no number)
LoadRateLimitRequests(parsed) ==
    IF parsed = 0 THEN DefaultRateLimitRequests ELSE parsed

\* rateLimitWindow in seconds, given what strconv.Atoi made of
\* RATE_LIMIT_WINDOW
LoadRateLimitWindow(parsed) ==
    IF parsed = 0 THEN DefaultRateLimitWindow ELSE parsed

(***************************************************************************)
(* middleware.RateLimiter                                                  *)
(***************************************************************************)

\* the calls of allow and the seconds followed
MaxAllows == 4
MaxLimiterTime == 3

\* the requests still inside the window: now.Sub(req) < rl.window
ValidRequests(times, now, window) ==
    SelectSeq(times, LAMBDA req : now - req < window)

\* a limit that lets one request more through
OverLimitByOne(count, maxReq) == count > maxReq

\* len(validRequests) >= rl.maxReq
OverLimit(count, maxReq) == count >= maxReq

\* an allow that records the request it rejects
allowRecordingRejected(rl, ip) ==
    LET entry == rl.requests[ip]
        validRequests == ValidRequests(entry.times, rl.now, rl.window)
    IN  IF ~entry.exists
        THEN [ok |-> TRUE,
              requests |-> [rl.requests EXCEPT ![ip] =
                               [exists |-> TRUE, times |-> <<rl.now>>]]]
        ELSE [ok |-> ~OverLimit(Len(validRequests), rl.maxReq),
              requests |-> [rl.requests EXCEPT ![ip].times =
                               Append(validRequests, rl.now)]]

\* RateLimiter.allow under rl.mu: the result and the map it leaves
allow(rl, ip) ==
    LET entry == rl.requests[ip]
        validRequests == ValidRequests(entry.times, rl.now, rl.window)
    IN  IF ~entry.exists
        THEN [ok |-> TRUE,
              requests |-> [rl.requests EXCEPT ![ip] =
                               [exists |-> TRUE, times |-> <<rl.now>>]]]
        ELSE IF OverLimit(Len(validRequests), rl.maxReq)
        THEN [ok |-> FALSE,
              requests |-> [rl.requests EXCEPT ![ip].times = validRequests]]
        ELSE [ok |-> TRUE,
              requests |-> [rl.requests EXCEPT ![ip].times =
                               Append(validRequests, rl.now)]]

\* the limiter after a call of allow(ip), history included
Asked(rl, ip) ==
    LET a == allow(rl, ip)
    IN  [rl EXCEPT !.requests = a.requests,
                   !.admitted[ip] = IF a.ok THEN Append(@, rl.now) ELSE @,
                   !.answer = [ip |-> ip, ok |-> a.ok, at |-> rl.now,
                               before |-> Len(ValidRequests(rl.admitted[ip], rl.now,
                                                            rl.window)),
                               calls |-> rl.answer.calls + 1]]

\* a request of key ip reaches the middleware, which asks allow
LimiterAllow(ip) ==
    /\ limiter.answer.calls < MaxAllows
    /\ limiter' = Asked(limiter, ip)
    /\ UNCHANGED <<clock, table, locks, calls, sweeper, reads, burned, started, probe,
                   loop>>

\* one pass of RateLimiter.cleanup under rl.mu: old requests are dropped
\* and a key left without requests is deleted from the map
LimiterCleanup ==
    /\ limiter' =
          [limiter EXCEPT !.requests =
              [ip \in LimitKeys |->
                  LET valid == ValidRequests(limiter.requests[ip].times, limiter.now,
                                             limiter.window)
                  IN  IF ~limiter.requests[ip].exists \/ Len(valid) = 0
                      THEN [exists |-> FALSE, times |-> <<>>]
                      ELSE [exists |-> TRUE, times |-> valid]]]
    /\ UNCHANGED <<clock, table, locks, calls, sweeper, reads, burned, started, probe,
                   loop>>

\* the response of the middleware to a request allow refused
TooManyRequestsResponse ==
    [status |-> StatusTooManyRequests,
     body |-> [NoBody EXCEPT !.kind = "error", !.error = "rate limit exceeded"]]

\* a middleware that writes 429 and goes on to the next handler
RateLimitWithoutReturn(p, ip, next) ==
    /\ limiter.answer.calls < MaxAllows
    /\ limiter' = Asked(limiter, ip)
    /\ next

\* the handler RateLimit puts before every route: it asks allow and either
\* answers 429 and returns, or calls next.ServeHTTP, the first step of which
\* is next
RateLimit(p, ip, next) ==
    /\ limiter.answer.calls < MaxAllows
    /\ limiter' = Asked(limiter, ip)
    /\ IF limiter'.answer.ok
       THEN next
       ELSE /\ Arrives(p)
            /\ calls' = [calls EXCEPT ![p] =
                  Finished([calls[p] EXCEPT !.op = "limited"], TooManyRequestsResponse,
                           "none")]
            /\ UNCHANGED <<clock, table, locks, sweeper, reads, burned, probe, loop>>

\* a second passes on the limiter's clock
LimiterTimePasses ==
    /\ limiter.now < MaxLimiterTime
    /\ limiter' = [limiter EXCEPT !.now = @ + 1]
    /\ UNCHANGED <<clock, table, locks, calls, sweeper, reads, burned, started, probe,
                   loop>>

(***************************************************************************)
(* cleanup.Worker: the loop of Start                                       *)
(***************************************************************************)

\* the ticks and passes counted as history, up to MaxTicks ticks
MaxTicks == 3

Count(n) == IF n <= MaxTicks THEN n + 1 ELSE n

\* w.cleanup() called at the entry of Start
WorkerStartCleanup ==
    /\ sweeper.pc = "immediate"
    /\ WorkerCleanupBegin
    /\ loop' = [loop EXCEPT !.passes = Count(@), !.failed = FALSE]

\* w.cleanup() returns; after the first pass Start makes its ticker
WorkerCleanupReturn(execOK) ==
    /\ WorkerCleanupEnd(execOK)
    /\ loop' = [loop EXCEPT !.ticker = IF @ = "none" THEN "running" ELSE @,
                            !.failed = ~execOK]

\* the interval has passed: the runtime sends on ticker.C, a channel that
\* holds one tick, and drops the tick when the channel is full
TickerFires ==
    /\ loop.ticker = "running"
    /\ loop' = IF loop.tick = 0
               THEN [loop EXCEPT !.tick = 1, !.fired = Count(@)]
               ELSE [loop EXCEPT !.fired = Count(@), !.dropped = Count(@)]
    /\ UNCHANGED <<clock, table, locks, calls, sweeper, reads, burned, started, probe,
                   limiter>>

\* select takes case <-ticker.C and calls w.cleanup()
WorkerSelectTick ==
    /\ sweeper.pc = "ticker"
    /\ loop.ticker = "running"
    /\ ~loop.returned
    /\ loop.tick = 1
    /\ WorkerCleanupBegin
    /\ loop' = [loop EXCEPT !.tick = 0, !.received = Count(@), !.passes = Count(@),
                            !.failed = FALSE]

\* select takes case <-w.stop: Start returns and its deferred ticker.Stop()
\* runs
WorkerSelectStop ==
    /\ sweeper.pc = "ticker"
    /\ loop.ticker = "running"
    /\ ~loop.returned
    /\ loop.stop
    /\ loop' = [loop EXCEPT !.returned = TRUE, !.ticker = "stopped"]
    /\ UNCHANGED <<clock, table, locks, calls, sweeper, reads, burned, started, probe,
                   limiter>>

\* Worker.Stop: close(w.stop)
WorkerStop ==
    /\ ~loop.stop
    /\ loop' = [loop EXCEPT !.stop = TRUE]
    /\ UNCHANGED <<clock, table, locks, calls, sweeper, reads, burned, started, probe,
                   limiter>>

(***************************************************************************)
(* Time                                                                    *)
(***************************************************************************)

Tick ==
    /\ clock < Len(ClockTicks)
    /\ clock' = clock + 1
    /\ UNCHANGED <<table, locks, calls, sweeper, reads, burned, started, probe, loop, limiter>>

(***************************************************************************)
(* Specification                                                           *)
(***************************************************************************)

\* no task stands between its response and its return
Quiet == \A p \in Procs : calls[p].pc # "done"

\* A task that has written its response returns before anything else
\* happens: returning touches nothing but the task itself, so every
\* interleaving of the steps that touch the table is still there.
Next ==
    \/ \E p \in Procs, body \in CreateBodies, randOK \in BOOLEAN, draw \in RandomDraws :
          Quiet /\ CreateSecretPrepare(p, body, randOK, draw) /\ UNCHANGED limiter
    \/ \E p \in Procs, outcome \in DriverOutcomes :
          Quiet /\ CreateSecretInsert(p, outcome)
    \/ \E p \in Procs, id \in RequestIDs, outcome \in DriverOutcomes :
          Quiet /\ GetSecretBegin(p, id, outcome) /\ UNCHANGED limiter
    \/ \E p \in Procs, outcome \in DriverOutcomes :
          Quiet /\ GetSecretSelect(p, outcome)
    \/ \E p \in Procs, outcome \in DriverOutcomes :
          Quiet /\ GetSecretDelete(p, outcome)
    \/ \E p \in Procs, outcome \in DriverOutcomes :
          Quiet /\ GetSecretCommit(p, outcome)
    \/ \E p \in Procs, id \in RequestIDs :
          Quiet /\ BurnSecretBegin(p, id) /\ UNCHANGED limiter
    \/ \E p \in Procs, outcome \in DriverOutcomes :
          Quiet /\ BurnSecretExec(p, outcome)
    \/ Quiet /\ WorkerCleanupBegin /\ UNCHANGED loop
    \/ \E id \in GeneratedIDs : Quiet /\ WorkerCleanupRow(id) /\ UNCHANGED loop
    \/ \E execOK \in BOOLEAN : Quiet /\ WorkerCleanupEnd(execOK) /\ UNCHANGED loop
    \/ Quiet /\ Tick
    \/ \E p \in Procs : Return(p)

Spec == Init /\ [][Next]_vars

\* One task serves the requests one after the other, with every body of
\* SerialBodies; the cleanup worker and the clock run beside it.
FirstTask == CHOOSE p \in Procs : \A q \in Procs : p <= q

NextSerial ==
    \/ \E body \in SerialBodies, randOK \in BOOLEAN, draw \in RandomDraws :
          Quiet /\ CreateSecretPrepare(FirstTask, body, randOK, draw) /\ UNCHANGED limiter
    \/ \E outcome \in DriverOutcomes : Quiet /\ CreateSecretInsert(FirstTask, outcome)
    \/ \E id \in RequestIDs, outcome \in DriverOutcomes :
          Quiet /\ GetSecretBegin(FirstTask, id, outcome) /\ UNCHANGED limiter
    \/ \E outcome \in DriverOutcomes : Quiet /\ GetSecretSelect(FirstTask, outcome)
    \/ \E outcome \in DriverOutcomes : Quiet /\ GetSecretDelete(FirstTask, outcome)
    \/ \E outcome \in DriverOutcomes : Quiet /\ GetSecretCommit(FirstTask, outcome)
    \/ \E id \in RequestIDs : Quiet /\ BurnSecretBegin(FirstTask, id) /\ UNCHANGED limiter
    \/ \E outcome \in DriverOutcomes : Quiet /\ BurnSecretExec(FirstTask, outcome)
    \/ Quiet /\ WorkerCleanupBegin /\ UNCHANGED loop
    \/ \E id \in GeneratedIDs : Quiet /\ WorkerCleanupRow(id) /\ UNCHANGED loop
    \/ \E execOK \in BOOLEAN : Quiet /\ WorkerCleanupEnd(execOK) /\ UNCHANGED loop
    \/ Quiet /\ Tick
    \/ Return(FirstTask)

SpecSerial == Init /\ [][NextSerial]_vars

\* The cleanup worker beside one task that creates secrets under two ids,
\* lasting MinTTL or MaxTTL seconds, and reads them.
SweepBodies == {ValidBodyList[1], ValidBodyList[3]}

NextSweep ==
    \/ \E body \in SweepBodies, draw \in TwoDraws :
          Quiet /\ CreateSecretPrepare(FirstTask, body, TRUE, draw) /\ UNCHANGED limiter
    \/ \E outcome \in DriverOutcomes : Quiet /\ CreateSecretInsert(FirstTask, outcome)
    \/ \E id \in TwoIDs, outcome \in DriverOutcomes :
          Quiet /\ GetSecretBegin(FirstTask, id, outcome) /\ UNCHANGED limiter
    \/ \E outcome \in DriverOutcomes : Quiet /\ GetSecretSelect(FirstTask, outcome)
    \/ \E outcome \in DriverOutcomes : Quiet /\ GetSecretDelete(FirstTask, outcome)
    \/ \E outcome \in DriverOutcomes : Quiet /\ GetSecretCommit(FirstTask, outcome)
    \/ Quiet /\ WorkerCleanupBegin /\ UNCHANGED loop
    \/ \E id \in TwoIDs : Quiet /\ WorkerCleanupRow(id) /\ UNCHANGED loop
    \/ \E execOK \in BOOLEAN : Quiet /\ WorkerCleanupEnd(execOK) /\ UNCHANGED loop
    \/ Quiet /\ Tick
    \/ Return(FirstTask)

SpecSweep == Init /\ [][NextSweep]_vars

\* The loop of Worker.Start with its ticker and its stop channel, beside
\* one task that creates secrets; MaxTicks ticks are followed.
NextWorker ==
    \/ \E draw \in RandomDraws :
          Quiet /\ CreateSecretPrepare(FirstTask, ValidBodyList[1], TRUE, draw) /\ UNCHANGED limiter
    \/ \E outcome \in DriverOutcomes : Quiet /\ CreateSecretInsert(FirstTask, outcome)
    \/ Quiet /\ WorkerStartCleanup
    \/ \E id \in GeneratedIDs : Quiet /\ WorkerCleanupRow(id) /\ UNCHANGED loop
    \/ \E execOK \in BOOLEAN : Quiet /\ WorkerCleanupReturn(execOK)
    \/ Quiet /\ loop.fired < MaxTicks /\ TickerFires
    \/ Quiet /\ WorkerSelectTick
    \/ Quiet /\ WorkerSelectStop
    \/ Quiet /\ WorkerStop
    \/ Quiet /\ Tick
    \/ Return(FirstTask)

SpecWorker == Init /\ [][NextWorker]_vars

\* The worker as the cleanup command runs it: never stopped, its ticker
\* firing for ever, beside one task that creates secrets.
NextWorkerFair ==
    \/ \E draw \in RandomDraws :
          Quiet /\ CreateSecretPrepare(FirstTask, ValidBodyList[1], TRUE, draw) /\ UNCHANGED limiter
    \/ \E outcome \in DriverOutcomes : Quiet /\ CreateSecretInsert(FirstTask, outcome)
    \/ Quiet /\ WorkerStartCleanup
    \/ \E id \in GeneratedIDs : Quiet /\ WorkerCleanupRow(id) /\ UNCHANGED loop
    \/ \E execOK \in BOOLEAN : Quiet /\ WorkerCleanupReturn(execOK)
    \/ Quiet /\ TickerFires
    \/ Quiet /\ WorkerSelectTick
    \/ Quiet /\ Tick
    \/ Return(FirstTask)

\* The scheduler runs every goroutine that can run, the ticker keeps
\* firing, time passes, and the DELETE of a pass does not fail for ever:
\* among the passes there are some whose statement reaches its rows and
\* ends without error.
FairWorker ==
    /\ WF_vars(Quiet /\ WorkerStartCleanup)
    /\ SF_vars(\E id \in GeneratedIDs : Quiet /\ WorkerCleanupRow(id) /\ UNCHANGED loop)
    /\ WF_vars(\E execOK \in BOOLEAN : Quiet /\ WorkerCleanupReturn(execOK))
    /\ SF_vars(Quiet /\ WorkerCleanupReturn(TRUE))
    /\ WF_vars(Quiet /\ TickerFires)
    /\ WF_vars(Quiet /\ WorkerSelectTick)
    /\ WF_vars(Quiet /\ Tick)
    /\ WF_vars(Return(FirstTask))

SpecWorkerFair == Init /\ [][NextWorkerFair]_vars /\ FairWorker

\* The store under concurrent requests for two ids, beside the passes of
\* the cleanup worker: Create, GetSecret and BurnSecret of NumProcs tasks.
NextStore ==
    \/ \E p \in Procs, draw \in TwoDraws :
          Quiet /\ CreateSecretPrepare(p, ValidBodyList[1], TRUE, draw) /\ UNCHANGED limiter
    \/ \E p \in Procs, outcome \in DriverOutcomes :
          Quiet /\ CreateSecretInsert(p, outcome)
    \/ \E p \in Procs, id \in TwoIDs :
          Quiet /\ GetSecretBegin(p, id, "ok") /\ UNCHANGED limiter
    \/ \E p \in Procs, outcome \in DriverOutcomes :
          Quiet /\ GetSecretSelect(p, outcome)
    \/ \E p \in Procs, outcome \in DriverOutcomes :
          Quiet /\ GetSecretDelete(p, outcome)
    \/ \E p \in Procs, outcome \in DriverOutcomes :
          Quiet /\ GetSecretCommit(p, outcome)
    \/ \E p \in Procs, id \in TwoIDs :
          Quiet /\ BurnSecretBegin(p, id) /\ UNCHANGED limiter
    \/ \E p \in Procs, outcome \in DriverOutcomes :
          Quiet /\ BurnSecretExec(p, outcome)
    \/ Quiet /\ WorkerCleanupBegin /\ UNCHANGED loop
    \/ \E id \in TwoIDs : Quiet /\ WorkerCleanupRow(id) /\ UNCHANGED loop
    \/ \E execOK \in BOOLEAN : Quiet /\ WorkerCleanupEnd(execOK) /\ UNCHANGED loop
    \/ Quiet /\ Tick
    \/ \E p \in Procs : Return(p)

\* The scheduler runs a goroutine that can run, and the database serves a
\* statement it can serve: among the statements that wait for a row lock
\* one gets it once the holder has ended, and a statement that waits for
\* nothing is executed.  No statement is helped by a failure: fairness is
\* asked of the executions that succeed only.
FairStore ==
    /\ SF_vars(\E p \in Procs :
                 Quiet /\ \/ CreateSecretInsert(p, "ok")
                          \/ GetSecretSelect(p, "ok")
                          \/ BurnSecretExec(p, "ok"))
    /\ WF_vars(\E p \in Procs :
                 Quiet /\ (GetSecretDelete(p, "ok") \/ GetSecretCommit(p, "ok")))
    /\ WF_vars(\E p \in Procs : Return(p))
    /\ WF_vars(/\ Quiet
               /\ UNCHANGED loop
               /\ \/ \E id \in TwoIDs : WorkerCleanupRow(id)
                  \/ WorkerCleanupEnd(TRUE))

SpecStoreFair == Init /\ [][NextStore]_vars /\ FairStore

(***************************************************************************)
(* db.New                                                                  *)
(***************************************************************************)

\* maxRetries := 5
MaxRetries == 5

\* the others of the variables, which db.New does not touch
ServerVars == <<clock, table, locks, calls, sweeper, reads, burned, started, loop, limiter>>

\* db.New entered: nothing tried yet.  pool is the number of the attempt
\* that made the pool held, 0 for nil; tried lists how each attempt ended;
\* slept lists the seconds of each time.Sleep
NewEntered ==
    [fn |-> "New", pc |-> "parse", i |-> 0, pool |-> 0, err |-> "none",
     tried |-> <<>>, slept |-> <<>>, returned |-> FALSE,
     result |-> [db |-> 0, err |-> "none"]]

InitNew ==
    /\ clock = 1
    /\ table = {}
    /\ locks = {}
    /\ calls = [p \in Procs |-> IdleCall]
    /\ sweeper = [pc |-> WorkerEntry, cutoff |-> 0]
    /\ reads = <<>>
    /\ burned = {}
    /\ started = 0
    /\ loop = NoLoop
    /\ limiter = NoLimiter
    /\ probe = NewEntered

\* pgxpool.ParseConfig and the settings of the pool
NewParseConfig(ok) ==
    /\ probe.fn = "New"
    /\ probe.pc = "parse"
    /\ probe' = IF ok
                THEN [probe EXCEPT !.pc = "for"]
                ELSE [probe EXCEPT !.pc = "returned", !.returned = TRUE,
                                   !.err = "parse config",
                                   !.result = [db |-> 0, err |-> "parse config"]]
    /\ UNCHANGED ServerVars

\* for i := 0; i < maxRetries; i++: the test of the loop
NewFor ==
    /\ probe.fn = "New"
    /\ probe.pc = "for"
    /\ probe' = [probe EXCEPT !.pc = IF probe.i < MaxRetries THEN "connect" ELSE "after"]
    /\ UNCHANGED ServerVars

\* pool, err = pgxpool.NewWithConfig(..)
NewWithConfig(ok) ==
    /\ probe.fn = "New"
    /\ probe.pc = "connect"
    /\ probe' = IF ok
                THEN [probe EXCEPT !.pc = "ping", !.pool = probe.i + 1, !.err = "none"]
                ELSE [probe EXCEPT !.pc = "backoff", !.pool = 0, !.err = "connect",
                                   !.tried = Append(@, "connect")]
    /\ UNCHANGED ServerVars

\* err = pool.Ping(..); break when it is nil
NewPing(ok) ==
    /\ probe.fn = "New"
    /\ probe.pc = "ping"
    /\ probe' = IF ok
                THEN [probe EXCEPT !.pc = "after", !.err = "none",
                                   !.tried = Append(@, "ok")]
                ELSE [probe EXCEPT !.pc = "backoff", !.err = "ping",
                                   !.tried = Append(@, "ping")]
    /\ UNCHANGED ServerVars

\* a wait that is taken after the last attempt too
NewBackoffAlways ==
    /\ probe.fn = "New"
    /\ probe.pc = "backoff"
    /\ probe' = [probe EXCEPT !.pc = "for", !.i = @ + 1,
                              !.slept = Append(@, probe.i + 1)]
    /\ UNCHANGED ServerVars

\* if i < maxRetries-1 { time.Sleep(time.Duration(i+1) * time.Second) }, i++
NewBackoff ==
    /\ probe.fn = "New"
    /\ probe.pc = "backoff"
    /\ probe' = [probe EXCEPT !.pc = "for", !.i = @ + 1,
                              !.slept = IF probe.i < MaxRetries - 1
                                        THEN Append(@, probe.i + 1)
                                        ELSE @]
    /\ UNCHANGED ServerVars

\* after the loop: the error of the last attempt, or the DB of the pool
NewReturn ==
    /\ probe.fn = "New"
    /\ probe.pc = "after"
    /\ probe' = [probe EXCEPT
                    !.pc = "returned", !.returned = TRUE,
                    !.result = IF probe.err # "none"
                               THEN [db |-> 0, err |-> "connect after retries"]
                               ELSE [db |-> probe.pool, err |-> "none"]]
    /\ UNCHANGED ServerVars

NextNew ==
    \/ \E ok \in BOOLEAN : NewParseConfig(ok)
    \/ NewFor
    \/ \E ok \in BOOLEAN : NewWithConfig(ok)
    \/ \E ok \in BOOLEAN : NewPing(ok)
    \/ NewBackoff
    \/ NewReturn

\* main runs db.New on its own goroutine before anything else; every call
\* of the driver returns (the connect timeout is set) and time.Sleep returns
SpecNew == InitNew /\ [][NextNew]_vars /\ WF_vars(NextNew)

(***************************************************************************)
(* frontend: the ViewSecret page                                           *)
(***************************************************************************)

\* how many times the page is loaded
MaxFetches == 4

\* what the user types into the passphrase field; "right" is the passphrase
\* the secret was encrypted with
PassphraseTexts == {"", "wrong", "other", "right"}

\* the state of the component when it mounts (useState), for a link with or
\* without a key in its fragment and a secret with or without a salt, which
\* the server still stores or not
ViewMounted(keyInUrl, salted, stored) ==
    [fn |-> "ViewSecret", loading |-> TRUE, secret |-> "null", error |-> "null",
     needsPassphrase |-> FALSE, passphrase |-> "", encryptedData |-> "null",
     keyInUrl |-> keyInUrl, salted |-> salted, stored |-> stored,
     fetches |-> 0, wrong |-> 0, returned |-> FALSE]

InitView ==
    /\ clock = 1
    /\ table = {}
    /\ locks = {}
    /\ calls = [p \in Procs |-> IdleCall]
    /\ sweeper = [pc |-> WorkerEntry, cutoff |-> 0]
    /\ reads = <<>>
    /\ burned = {}
    /\ started = 0
    /\ loop = NoLoop
    /\ limiter = NoLimiter
    /\ \E keyInUrl, salted, stored \in BOOLEAN :
          probe = ViewMounted(keyInUrl, salted, stored)

\* what the component renders: the branches of its return, in their order
View(page) ==
    IF page.loading THEN "loading"
    ELSE IF page.error # "null" THEN "unavailable"
    ELSE IF page.needsPassphrase /\ page.encryptedData # "null" THEN "prompt"
    ELSE IF page.secret # "null" THEN "secret"
    ELSE "nothing"

\* the status of the answer of GET /secrets/{id}, as Handler.GetSecret gives it
FetchStatus(netOK) ==
    IF ~netOK THEN StatusInternalServerError
    ELSE IF probe.stored THEN StatusOK
    ELSE QueryErrorResponse(PgxErrNoRows).status

\* retrieveSecret, run by the effect on mount: one GET, which consumes the
\* secret on the server when it is answered 200
ViewRetrieveSecret(netOK, decryptOK) ==
    LET status == FetchStatus(netOK)
        fetched == [probe EXCEPT !.loading = FALSE, !.fetches = @ + 1,
                                 !.stored = IF status = StatusOK THEN FALSE ELSE @]
    IN  /\ probe.fn = "ViewSecret"
        /\ probe.loading
        /\ probe' =
              IF status = StatusNotFound
              THEN [fetched EXCEPT !.error =
                       "This secret does not exist or has already been viewed"]
              ELSE IF status # StatusOK
              THEN [fetched EXCEPT !.error = "Failed to retrieve secret"]
              ELSE IF probe.keyInUrl
              THEN IF decryptOK
                   THEN [fetched EXCEPT !.secret = "plaintext"]
                   ELSE [fetched EXCEPT !.error = "decryption failed"]
              ELSE IF probe.salted
              THEN [fetched EXCEPT !.needsPassphrase = TRUE, !.encryptedData = "data"]
              ELSE [fetched EXCEPT !.error = "No decryption key available"]
        /\ UNCHANGED ServerVars

\* onChange of the passphrase field, which exists while the prompt is shown
ViewTypePassphrase(text) ==
    /\ probe.fn = "ViewSecret"
    /\ View(probe) = "prompt"
    /\ probe' = [probe EXCEPT !.passphrase = text]
    /\ UNCHANGED ServerVars

\* handlePassphraseSubmit, run by the form of the prompt
ViewSubmitPassphrase ==
    /\ probe.fn = "ViewSecret"
    /\ View(probe) = "prompt"
    /\ probe' =
          IF probe.passphrase = "" \/ probe.encryptedData = "null"
          THEN probe
          ELSE IF probe.passphrase = "right"
          THEN [probe EXCEPT !.secret = "plaintext", !.needsPassphrase = FALSE]
          ELSE [probe EXCEPT !.error = "Incorrect passphrase. Please try again.",
                             !.wrong = @ + 1]
    /\ UNCHANGED ServerVars

\* the user loads the link again: the component mounts anew
ViewReload ==
    /\ probe.fn = "ViewSecret"
    /\ ~probe.loading
    /\ probe.fetches < MaxFetches
    /\ probe' = [ViewMounted(probe.keyInUrl, probe.salted, probe.stored) EXCEPT
                    !.fetches = probe.fetches, !.wrong = probe.wrong]
    /\ UNCHANGED ServerVars

NextView ==
    \/ \E netOK, decryptOK \in BOOLEAN : ViewRetrieveSecret(netOK, decryptOK)
    \/ \E text \in PassphraseTexts : ViewTypePassphrase(text)
    \/ ViewSubmitPassphrase
    \/ ViewReload

SpecView == InitView /\ [][NextView]_vars

\* The RateLimiter on its own: calls of allow for two keys, the passes of
\* its cleanup goroutine and its clock, under each of the settings tried.
ParsedRateLimitRequests == {-1, 0, 1, 2}
ParsedRateLimitWindows == {0, 2}

InitLimiter ==
    /\ clock = 1
    /\ table = {}
    /\ locks = {}
    /\ calls = [p \in Procs |-> IdleCall]
    /\ sweeper = [pc |-> WorkerEntry, cutoff |-> 0]
    /\ reads = <<>>
    /\ burned = {}
    /\ started = 0
    /\ probe = NoProbe
    /\ loop = NoLoop
    /\ \E requests \in ParsedRateLimitRequests, window \in ParsedRateLimitWindows :
          limiter = NewLimiter(LoadRateLimitRequests(requests),
                               LoadRateLimitWindow(window))

NextLimiter ==
    \/ \E ip \in LimitKeys : LimiterAllow(ip)
    \/ LimiterCleanup
    \/ LimiterTimePasses

SpecLimiter == InitLimiter /\ [][NextLimiter]_vars

\* The server as main builds it: every request of one task passes the
\* RateLimit middleware before its handler.
GuardSettings == {1, 2}

InitGuard ==
    /\ clock = 1
    /\ table = {}
    /\ locks = {}
    /\ calls = [p \in Procs |-> IdleCall]
    /\ sweeper = [pc |-> WorkerEntry, cutoff |-> 0]
    /\ reads = <<>>
    /\ burned = {}
    /\ started = 0
    /\ probe = NoProbe
    /\ loop = NoLoop
    /\ \E requests \in GuardSettings :
          limiter = NewLimiter(LoadRateLimitRequests(requests), LoadRateLimitWindow(2))

NextGuard ==
    \/ \E ip \in LimitKeys, body \in CreateBodies, draw \in RandomDraws :
          Quiet /\ RateLimit(FirstTask, ip,
                             CreateSecretPrepare(FirstTask, body, TRUE, draw))
    \/ \E outcome \in DriverOutcomes : Quiet /\ CreateSecretInsert(FirstTask, outcome)
    \/ \E ip \in LimitKeys, id \in RequestIDs, outcome \in DriverOutcomes :
          Quiet /\ RateLimit(FirstTask, ip, GetSecretBegin(FirstTask, id, outcome))
    \/ \E outcome \in DriverOutcomes : Quiet /\ GetSecretSelect(FirstTask, outcome)
    \/ \E outcome \in DriverOutcomes : Quiet /\ GetSecretDelete(FirstTask, outcome)
    \/ \E outcome \in DriverOutcomes : Quiet /\ GetSecretCommit(FirstTask, outcome)
    \/ \E ip \in LimitKeys, id \in RequestIDs :
          Quiet /\ RateLimit(FirstTask, ip, BurnSecretBegin(FirstTask, id))
    \/ \E outcome \in DriverOutcomes : Quiet /\ BurnSecretExec(FirstTask, outcome)
    \/ Quiet /\ LimiterCleanup
    \/ Quiet /\ LimiterTimePasses
    \/ Return(FirstTask)

SpecGuard == InitGuard /\ [][NextGuard]_vars

\* One task serves creates, and GETs and DELETEs with ids of every shape.
NextFormat ==
    \/ \E draw \in RandomDraws :
          Quiet /\ CreateSecretPrepare(FirstTask, ValidBodyList[1], TRUE, draw)
                /\ UNCHANGED limiter
    \/ \E outcome \in DriverOutcomes : Quiet /\ CreateSecretInsert(FirstTask, outcome)
    \/ \E id \in FormatIDs, outcome \in DriverOutcomes :
          Quiet /\ GetSecretBegin(FirstTask, id, outcome) /\ UNCHANGED limiter
    \/ \E outcome \in DriverOutcomes : Quiet /\ GetSecretSelect(FirstTask, outcome)
    \/ \E outcome \in DriverOutcomes : Quiet /\ GetSecretDelete(FirstTask, outcome)
    \/ \E outcome \in DriverOutcomes : Quiet /\ GetSecretCommit(FirstTask, outcome)
    \/ \E id \in FormatIDs : Quiet /\ BurnSecretBegin(FirstTask, id) /\ UNCHANGED limiter
    \/ \E outcome \in DriverOutcomes : Quiet /\ BurnSecretExec(FirstTask, outcome)
    \/ Return(FirstTask)

SpecFormat == Init /\ [][NextFormat]_vars

(***************************************************************************)
(* ValidateCreateRequest applied on its own                                *)
(***************************************************************************)

\* a text that is not base64
TextNotBase64 == <<"!","!","!","!">>

\* a text of line breaks only: not empty, it decodes to no byte
TextBlank == <<"\n">>

\* the ciphertext texts tried: empty, not base64, no byte, one byte,
\* exactly maxSize bytes, one byte more
ProbeCiphertexts ==
    { <<>>, TextNotBase64, TextBlank, TextA, TextBLoose,
      StdEncodeToString(Rep(65, CfgMaxSecretSize)), TextTooLarge }

\* the IV texts tried: empty, not base64, no byte, 11, 12 and 13 bytes
ProbeIVs ==
    { <<>>, TextNotBase64, TextBlank, TextIVShort, TextIV, TextIVWrapped,
      StdEncodeToString(Rep(0, IVSize + 1)) }

\* the salt texts tried: absent, not base64, no byte, 15, 16 and 17 bytes
ProbeSalts ==
    { <<>>, TextNotBase64, TextBlank, TextSaltShort, TextSalt,
      StdEncodeToString(Rep(7, MinSaltSize + 1)) }

\* an expires_in so large that time.Duration(expiresIn) * time.Second leaves
\* the int64 range: 18446744374
HugeExpiresIn == AddInt64(MulInt64(Int64(18446744), Int64(1000)), Int64(374))

\* the expires_in values tried, as ints
ProbeExpiresIns ==
    { Int64(MinTTL - 1), Int64(MinTTL), Int64(MinTTL + 1),
      Int64(MaxTTL - 1), Int64(MaxTTL), Int64(MaxTTL + 1),
      Int64(0), Int64(-1), Int64(-MinTTL), HugeExpiresIn }

\* the arguments ValidateCreateRequest is tried with
ProbeRequests ==
    { [Body(c, iv, salt, 0, burn) EXCEPT !.ExpiresIn = ttl] :
        c \in ProbeCiphertexts, iv \in ProbeIVs, salt \in ProbeSalts,
        ttl \in ProbeExpiresIns, burn \in BOOLEAN }

InitValidate ==
    /\ clock = 1
    /\ table = {}
    /\ locks = {}
    /\ calls = [p \in Procs |-> IdleCall]
    /\ sweeper = [pc |-> WorkerEntry, cutoff |-> 0]
    /\ reads = <<>>
    /\ burned = {}
    /\ started = 0
    /\ loop = NoLoop
    /\ limiter = NoLimiter
    /\ \E b \in ProbeRequests :
          probe = [NoProbe EXCEPT !.fn = "ValidateCreateRequest", !.arg = b]

\* the call validation.ValidateCreateRequest(req.Ciphertext, req.IV,
\* req.Salt, req.ExpiresIn, h.cfg.MaxSecretSize) of CreateSecret
ValidateProbe ==
    /\ probe.fn = "ValidateCreateRequest"
    /\ ~probe.returned
    /\ probe' = [probe EXCEPT
                    !.returned = TRUE,
                    !.result = ValidateCreateRequest(probe.arg.Ciphertext, probe.arg.IV,
                                                     probe.arg.Salt, probe.arg.ExpiresIn,
                                                     CfgMaxSecretSize)]
    /\ UNCHANGED <<clock, table, locks, calls, sweeper, reads, burned, started, loop, limiter>>

NextValidate == ValidateProbe

SpecValidate == InitValidate /\ [][NextValidate]_vars

(***************************************************************************)
(* GenerateSecretID applied on its own                                     *)
(***************************************************************************)

\* first bytes and steps of the byte patterns rand.Read is tried with
ProbeFirstBytes == {0, 1, 62, 63, 127, 128, 251, 255}
ProbeByteSteps == {0, 1, 3, 17, 64, 85, 128, 255}

\* what rand.Read fills in: SecretIDLength bytes, the i-th being
\* first + i * step
ProbeDraws ==
    { [i \in 1..SecretIDLength |-> (first + i * step) % 256] :
        first \in ProbeFirstBytes, step \in ProbeByteSteps }

InitGenerate ==
    /\ clock = 1
    /\ table = {}
    /\ locks = {}
    /\ calls = [p \in Procs |-> IdleCall]
    /\ sweeper = [pc |-> WorkerEntry, cutoff |-> 0]
    /\ reads = <<>>
    /\ burned = {}
    /\ started = 0
    /\ loop = NoLoop
    /\ limiter = NoLimiter
    /\ \E d \in ProbeDraws :
          probe = [NoProbe EXCEPT !.fn = "GenerateSecretID", !.arg = d]

\* the call crypto.GenerateSecretID() of CreateSecret, rand.Read succeeding
GenerateProbe ==
    /\ probe.fn = "GenerateSecretID"
    /\ ~probe.returned
    /\ probe' = [probe EXCEPT !.returned = TRUE, !.result = GenerateSecretID(probe.arg)]
    /\ UNCHANGED <<clock, table, locks, calls, sweeper, reads, burned, started, loop, limiter>>

NextGenerate == GenerateProbe

SpecGenerate == InitGenerate /\ [][NextGenerate]_vars

(***************************************************************************)
(* Properties                                                              *)
(***************************************************************************)

\* task p has answered a request of kind op
Answered(p, op) == calls[p].pc = "done" /\ calls[p].op = op

\* task p has answered a request of kind op for a well-formed id, and no
\* call of the driver failed on the way
Served(p, op) ==
    /\ Answered(p, op)
    /\ calls[p].fault = "none"
    /\ IDError[calls[p].id] = NoError

\* the row of serial s is stored
Stored(s) == \E r \in table : r.serial = s

\* C1: at-most-once consume.  Over every interleaving of GET calls, the
\* content of a secret is carried by at most one response; a response that
\* carries content is the response of the GET that removed the row.
C1_AtMostOnce ==
    /\ \A s \in 1..Len(reads) : reads[s] <= 1
    /\ \A p \in Procs :
          calls[p].resp.body.kind = "secret" =>
             /\ calls[p].op = "get"
             /\ reads[calls[p].got.serial] = 1
             /\ ~Stored(calls[p].got.serial)

\* a GET of a secret that was stored when the GET arrived and has been read
\* by another GET: it is answered without the content
C1_SecondGetWithoutContent ==
    \E p \in Procs :
        /\ Answered(p, "get")
        /\ calls[p].seen.serial # 0
        /\ reads[calls[p].seen.serial] = 1
        /\ calls[p].resp.status # StatusOK

\* C2: of K concurrent GET calls for a created, unexpired secret one is
\* answered 200 and the K-1 others 404.  Stated for each call: a GET that
\* found the secret stored when it arrived, and that another GET read
\* first, is answered 404.
C2_LosersAnswered404 ==
    \A p \in Procs :
        ( /\ Served(p, "get")
          /\ calls[p].seen.serial # 0
          /\ Now <= calls[p].seen.expires_at
          /\ reads[calls[p].seen.serial] = 1
          /\ calls[p].got.serial # calls[p].seen.serial )
        => calls[p].resp.status = StatusNotFound

\* C3: a GET for a well-formed id whose row is absent is answered 404 and
\* no other status.
C3_AbsentAnswered404 ==
    \A p \in Procs :
        (Served(p, "get") /\ calls[p].got = NoRow)
        => calls[p].resp.status = StatusNotFound

\* the bytes of a base64 text, as the validator decodes it
BytesOf(text) == StdDecodeString(text).bytes

\* C4: round-trip integrity.  The successful GET of an accepted POST yields
\* the ciphertext, iv and salt of the POST byte for byte: each text of the
\* response decodes, and decodes to the bytes the text of the request
\* decodes to; the response has a salt exactly when the request had one.
C4_RoundTrip ==
    \A p \in Procs :
        (Answered(p, "get") /\ calls[p].resp.status = StatusOK) =>
            LET request == ValidBodyList[calls[p].got.posted]
                response == calls[p].resp.body
            IN  /\ StdDecodeString(response.ciphertext).ok
                /\ BytesOf(response.ciphertext) = BytesOf(request.Ciphertext)
                /\ StdDecodeString(response.iv).ok
                /\ BytesOf(response.iv) = BytesOf(request.IV)
                /\ (response.salt = <<>>) <=> (request.Salt = <<>>)
                /\ StdDecodeString(response.salt).ok
                /\ BytesOf(response.salt) = BytesOf(request.Salt)

\* a successful GET of a secret posted with a salt, and with texts that are
\* not the canonical encoding of their bytes
C4_ReadBack ==
    \E p \in Procs :
        /\ Answered(p, "get")
        /\ calls[p].resp.status = StatusOK
        /\ ValidBodyList[calls[p].got.posted].Salt # <<>>
        /\ ValidBodyList[calls[p].got.posted].Ciphertext # calls[p].resp.body.ciphertext

\* C5: burn is exclusive with consume.  Of one GET and one DELETE racing for
\* a created, unexpired secret one succeeds and the other is answered 404:
\* a GET that found the secret stored when it arrived, and finds no row
\* because the DELETE removed it first, is answered 404; a DELETE answered 204 removed a secret no
\* GET has read, and a DELETE whose secret a GET read first is answered 404.
C5_BurnExclusive ==
    /\ \A p \in Procs :
          ( /\ Served(p, "get")
            /\ calls[p].seen.serial # 0
            /\ Now <= calls[p].seen.expires_at
            /\ reads[calls[p].seen.serial] = 0
            /\ ~Stored(calls[p].seen.serial)
            /\ calls[p].got = NoRow )
          => calls[p].resp.status = StatusNotFound
    /\ \A p \in Procs :
          Served(p, "burn") =>
             /\ calls[p].resp.status = StatusNoContent => reads[calls[p].got.serial] = 0
             /\ calls[p].got = NoRow => calls[p].resp.status = StatusNotFound

\* C6: lazy expiry precedes sweep.  A GET of a secret that was stored and
\* already expired when the GET arrived is answered 404 without content,
\* whether or not the cleanup worker removes the row first (a GET that
\* finds another secret, stored under the id since, is left aside).
C6_ExpiredAnswered404 ==
    \A p \in Procs :
        ( /\ Served(p, "get")
          /\ calls[p].seen.expired
          /\ calls[p].got.serial \in {0, calls[p].seen.serial} ) =>
            /\ calls[p].resp.status = StatusNotFound
            /\ calls[p].resp.body.kind # "secret"

C9_BurnUnconditional ==
    \A p \in Procs :
        Served(p, "burn") =>
            /\ calls[p].got # NoRow => calls[p].resp.status = StatusNoContent
            /\ calls[p].resp.status = StatusNotFound <=> calls[p].got = NoRow
            /\ ~HasRow(calls[p].id)

\* a DELETE that removed an expired row and was answered 204
C9_BurnedExpired ==
    \E p \in Procs :
        /\ Served(p, "burn")
        /\ calls[p].got # NoRow
        /\ Now > calls[p].got.expires_at
        /\ calls[p].resp.status = StatusNoContent

\* C10 as the claim states it: a DELETE is answered 404 exactly when a GET
\* would be, that is when the id has no row or its secret is expired.
C10_NotFoundAsGet ==
    \A p \in Procs :
        (Answered(p, "burn") /\ calls[p].fault = "none") =>
            ( calls[p].resp.status = StatusNotFound
              <=> (calls[p].got = NoRow \/ Now > calls[p].got.expires_at) )

\* C10: a DELETE that the storage does not fail is answered 404 exactly when
\* the id is malformed or has no row when the DELETE runs, and 204
\* otherwise.
C10_NotFoundIffNoRow ==
    \A p \in Procs :
        (Answered(p, "burn") /\ calls[p].fault = "none") =>
            /\ calls[p].resp.status \in {StatusNoContent, StatusNotFound}
            /\ calls[p].resp.status = StatusNotFound
                  <=> (IDError[calls[p].id] # NoError \/ calls[p].got = NoRow)

\* a DELETE of a secret that was stored when the DELETE arrived and that a
\* GET read first: it is answered 404
C10_BurnAfterConsume ==
    \E p \in Procs :
        /\ Served(p, "burn")
        /\ calls[p].seen.serial # 0
        /\ reads[calls[p].seen.serial] = 1
        /\ calls[p].resp.status = StatusNotFound

\* C11: after a Burn answered 204, every later DELETE of the id is answered
\* 404 and every later GET of it is answered not-found.  Stated for each
\* later call that finds no row of the id, neither when it arrives nor when
\* it runs.
C11_AfterBurnNotFound ==
    \A p \in Procs :
        ( /\ Served(p, "get") \/ Served(p, "burn")
          /\ calls[p].after
          /\ calls[p].seen.serial = 0
          /\ calls[p].got = NoRow )
        => calls[p].resp.status = StatusNotFound

\* C12: anti-oracle.  The response of a GET (status and body) is the same
\* for an id that never existed, an id already read or burned and an id
\* whose secret has expired: every GET for a well-formed id that no driver
\* call fails and that returns no content writes the one response 404
\* "not found".
C12_OneNotFoundResponse ==
    \A p \in Procs :
        (Served(p, "get") /\ calls[p].resp.body.kind # "secret")
        => calls[p].resp = respondError(StatusNotFound, "not found")

\* ValidateCreateRequest has returned from the call tried
Validation == probe.fn = "ValidateCreateRequest" /\ probe.returned

\* the ciphertext, IV and salt of the call tried pass their checks
OtherFieldsPass ==
    probe.result.err \notin {ErrInvalidCiphertext, ErrSecretTooLarge, ErrInvalidIV, ErrInvalidSalt}

\* MinTTL <= expiresIn <= MaxTTL, in seconds
TTLInRange(expiresIn) ==
    ~LessInt64(expiresIn, Int64(MinTTL)) /\ ~LessInt64(Int64(MaxTTL), expiresIn)

\* C13: TTL boundary.  ValidateCreateRequest accepts expires_in of 300, of
\* 86400 and of every value between, and rejects every value outside
\* [300, 86400] with ErrInvalidTTL, which CreateSecret reports as 400.
C13_TTLBoundary ==
    (Validation /\ OtherFieldsPass) =>
        IF TTLInRange(probe.arg.ExpiresIn)
        THEN probe.result.err = NoError
        ELSE /\ probe.result.err = ErrInvalidTTL
             /\ ValidationStatus(probe.result.err) = StatusBadRequest

\* the ciphertext of the call tried passes its checks
CiphertextPasses == probe.result.err \notin {ErrInvalidCiphertext, ErrSecretTooLarge}

\* the text decodes, and to a number of bytes in lengths
DecodesTo(text, lengths) ==
    StdDecodeString(text).ok /\ Len(BytesOf(text)) \in lengths

C15_SizeCeiling ==
    Validation =>
        /\ DecodesTo(probe.arg.Ciphertext, MinSecretSize..CfgMaxSecretSize)
              => CiphertextPasses
        /\ ( /\ StdDecodeString(probe.arg.Ciphertext).ok
             /\ Len(BytesOf(probe.arg.Ciphertext)) > CfgMaxSecretSize )
              => /\ probe.result.err = ErrSecretTooLarge
                 /\ ValidationStatus(probe.result.err) = StatusRequestEntityTooLarge
        /\ ( \/ probe.arg.Ciphertext = <<>>
             \/ ~StdDecodeString(probe.arg.Ciphertext).ok
             \/ BytesOf(probe.arg.Ciphertext) = <<>> )
              => /\ probe.result.err = ErrInvalidCiphertext
                 /\ ValidationStatus(probe.result.err) = StatusBadRequest

\* a request whose ciphertext has exactly maxSize bytes is accepted
C15_MaxSizeAccepted ==
    /\ Validation
    /\ DecodesTo(probe.arg.Ciphertext, {CfgMaxSecretSize})
    /\ probe.result.err = NoError

RejectedBody(body) == ~body.wellformed \/ Validated[body].err # NoError

\* C17: a POST that fails JSON decoding or validation is answered 400 (413
\* for an oversized ciphertext) in the very step that rejects it, and that
\* step leaves the table as it was: no row is inserted for it.
C17_RejectedCreateInsertsNothing ==
    [][ \A p \in Procs, body \in CreateBodies, randOK \in BOOLEAN, draw \in RandomDraws :
          (CreateSecretPrepare(p, body, randOK, draw) /\ RejectedBody(body)) =>
             /\ calls'[p].pc = "done"
             /\ calls'[p].resp.status =
                   IF body.wellformed /\ Validated[body].err = ErrSecretTooLarge
                   THEN StatusRequestEntityTooLarge
                   ELSE StatusBadRequest
             /\ calls'[p].resp.body.kind = "error"
             /\ table' = table ]_vars

\* a POST answered 413 while a secret is stored
C17_TooLargeRejected ==
    \E p \in Procs :
        /\ Answered(p, "create")
        /\ calls[p].resp.status = StatusRequestEntityTooLarge
        /\ table # {}

\* C18: burn_after_read is forced true.  Whatever the caller sends, the
\* validated request a CreateSecret is about to insert and every row of the
\* table have burn_after_read = true, and a GET that returns the secret has
\* deleted its row.
C18_BurnAfterReadForced ==
    /\ \A r \in table : r.burn_after_read
    /\ \A p \in Procs :
          /\ calls[p].pc = "insert" => calls[p].got.burn_after_read
          /\ (Answered(p, "get") /\ calls[p].resp.status = StatusOK)
                => ~Stored(calls[p].got.serial)

\* a row is stored with burn_after_read = true for a request that said false
C18_CallerSaidFalse ==
    \E r \in table : r.burn_after_read /\ ~ValidBodyList[r.posted].BurnAfterRead

\* GenerateSecretID has returned from the call tried
Generation == probe.fn = "GenerateSecretID" /\ probe.returned

\* the characters A-Z, a-z, 0-9, "-" and "_"
URLSafeChars ==
    {Upper[i] : i \in 1..Len(Upper)} \cup {Lower[i] : i \in 1..Len(Lower)}
        \cup {Digits[i] : i \in 1..Len(Digits)} \cup {"-", "_"}

\* C19: every id GenerateSecretID returns is a string of 22 characters of
\* the URL-safe alphabet, without padding, and ValidateSecretID accepts it.
C19_GeneratedIDWellFormed ==
    Generation =>
        /\ Len(probe.result) = 22
        /\ \A i \in 1..Len(probe.result) : probe.result[i] \in URLSafeChars
        /\ ValidateSecretID(probe.result) = NoError

\* an id with one of the two characters that set the URL-safe alphabet
\* apart
C19_URLSafeCharUsed ==
    /\ Generation
    /\ \E i \in 1..Len(probe.result) : probe.result[i] \in {"-", "_"}

\* C19, in the handlers: the id of every 201 passes the format check of GET
\* and DELETE.
CreatedIDPassesFormatCheck ==
    \A p \in Procs :
        (Answered(p, "create") /\ calls[p].resp.status = StatusCreated)
        => ValidateSecretID(calls[p].resp.body.id) = NoError

\* the INSERT of the create of task p met a row of the generated id
Collided(p) == Answered(p, "create") /\ calls[p].fault = "duplicate"

\* C20: a create whose generated id is the primary key of a stored row ends
\* otherwise than a create whose INSERT met a storage failure does.
C20_DuplicateDistinguished ==
    \A p \in Procs :
        Collided(p) =>
            calls[p].resp # respondError(StatusInternalServerError, "failed to store secret")

\* the seconds the body asks for
TTLSecondsOf(body) == CHOOSE n \in {MinTTL, MaxTTL} : Int64(n) = body.ExpiresIn

\* the row is whole: it holds what the validator made of its body, read at
\* one creation time, and it is the only row of its id
WholeRow(r) ==
    LET body == ValidBodyList[r.posted]
    IN  /\ r.posted \in 1..Len(ValidBodyList)
        /\ r.serial \in 1..Len(reads)
        /\ r.ciphertext = BytesOf(body.Ciphertext)
        /\ r.iv = BytesOf(body.IV)
        /\ r.salt = BytesOf(body.Salt)
        /\ r.burn_after_read
        /\ r.expires_at = r.created_at + TTLSecondsOf(body)
        /\ r.expires_at > r.created_at
        /\ \A other \in table : other.id = r.id => other = r

\* the step of task p is the INSERT of CreateSecret answered 201
InsertAnswered201(p) ==
    /\ CreateSecretInsert(p, "ok")
    /\ calls'[p].resp.status = StatusCreated

Created == 1..Len(reads)

\* a Burn has removed the row of serial s, as the variable burned has it
BurnedIn(set, s) == \E b \in set : b.serial = s

\* the destruction paths that have taken the secret of serial s so far: the
\* GETs that sent its content and the Burn that deleted its row
TakenBy(s) == reads[s] + (IF BurnedIn(burned, s) THEN 1 ELSE 0)

\* the paths that take the secret of serial s in the step
TakenInStep(s) ==
    (reads'[s] - reads[s]) + (IF BurnedIn(burned', s) /\ ~BurnedIn(burned, s) THEN 1 ELSE 0)

\* the step is the Commit of a GetSecret, the DELETE of a BurnSecret, the
\* end of the DELETE of the cleanup worker
StepOfGet == \E p \in Procs, outcome \in DriverOutcomes : GetSecretCommit(p, outcome)
StepOfBurn == \E p \in Procs, outcome \in DriverOutcomes : BurnSecretExec(p, outcome)
StepOfSweeper == \E execOK \in BOOLEAN : WorkerCleanupEnd(execOK)

\* how many of the three kinds of step the step is
DestroyingSteps ==
    (IF StepOfGet THEN 1 ELSE 0) + (IF StepOfBurn THEN 1 ELSE 0)
        + (IF StepOfSweeper THEN 1 ELSE 0)

\* C22: every secret is destroyed by exactly one path.  The step that
\* removes a row is a step of one path only and is the first to take the
\* secret; it is a read, a burn, or the deletion of an expired row by GET or
\* by the sweeper.  No path takes a secret in a step that leaves its row
\* stored or finds it absent, and an absent row does not come back.
C22_OneDestructionPath ==
    [][\A s \in Created :
          IF Stored(s)
          THEN LET r == CHOOSE x \in table : x.serial = s
               IN  IF \E x \in table' : x.serial = s
                   THEN TakenInStep(s) = 0
                   ELSE /\ TakenBy(s) = 0
                        /\ DestroyingSteps = 1
                        /\ TakenInStep(s) <= 1
                        /\ TakenInStep(s) = 0 => Now > r.expires_at
                        /\ StepOfSweeper => TakenInStep(s) = 0
          ELSE /\ ~\E x \in table' : x.serial = s
               /\ TakenInStep(s) = 0
               /\ TakenBy(s) <= 1]_vars

\* a Burn that arrived while the row was stored and was answered 404: a GET
\* had sent the content in between
C22_BurnLostToGet ==
    \E p \in Procs :
        /\ Answered(p, "burn")
        /\ calls[p].resp.status = StatusNotFound
        /\ calls[p].seen.serial # 0
        /\ reads[calls[p].seen.serial] = 1

\* a row deleted by the sweeper while a GET for it was on its way
C22_GetLostToSweeper ==
    \E p \in Procs :
        /\ calls[p].op = "get"
        /\ calls[p].pc = "select"
        /\ calls[p].seen.serial # 0
        /\ ~Stored(calls[p].seen.serial)
        /\ TakenBy(calls[p].seen.serial) = 0

\* the step is a pass of the cleanup worker that ends without error
SweeperPassSucceeds == WorkerCleanupEnd(TRUE)

\* C23: a pass of the sweeper that succeeds removes every row whose
\* expires_at is before the time of the pass and no other row: a row not yet
\* expired stays.
C23_SweepsExactlyExpired ==
    [][SweeperPassSucceeds =>
          /\ table' \subseteq table
          /\ \A r \in table \ table' : r.expires_at < sweeper.cutoff /\ Now > r.expires_at
          /\ \A r \in table' : ~(r.expires_at < sweeper.cutoff)]_vars

\* a pass about to end with an expired row to delete and a row not yet
\* expired beside it
C23_ExpiredBesideUnexpired ==
    /\ sweeper.pc = "running"
    /\ \E r \in table :
          /\ Now > r.expires_at
          /\ \E l \in locks : l.holder = SweeperTx /\ l.id = r.id
    /\ \E r \in table : Now < r.expires_at

\* C24 as stated: after the pass run at once, every tick of the interval
\* has started a pass or waits to start one.
C24_PassPerTick ==
    /\ sweeper.pc = "immediate" <=> loop.passes = 0
    /\ loop.fired > 0 => loop.passes >= 1
    /\ sweeper.pc # "immediate" => loop.passes + loop.tick = 1 + loop.fired

\* C24, amended: Worker.Start runs one pass at once, before its ticker exists
\* and so before the first tick, then one pass for each tick it receives
\* from the ticker (a tick that finds the channel full is dropped), and
\* leaves its loop only when stopped.
C24_ImmediateThenPerTick ==
    /\ sweeper.pc = "immediate" <=> loop.passes = 0
    /\ loop.ticker = "none" => loop.fired = 0 /\ loop.passes <= 1
    /\ loop.fired > 0 => loop.passes >= 1
    /\ sweeper.pc # "immediate" => loop.passes = 1 + loop.received
    /\ loop.fired = loop.received + loop.tick + loop.dropped
    /\ loop.returned => loop.stop

\* the third pass runs, started by the second tick received
C24_ThirdPassRuns ==
    /\ sweeper.pc = "running"
    /\ loop.received = 2
    /\ loop.passes = 3
    /\ ~loop.stop

\* the step is a pass of the cleanup worker that ends with an error
SweeperPassFails == WorkerCleanupReturn(FALSE)

\* C25: a pass whose DELETE fails changes no row and leaves no lock, the
\* worker stays in its loop, and a later tick starts a new pass.
C25_FailedPassRetried ==
    /\ [][SweeperPassFails =>
            /\ table' = table
            /\ ~\E l \in locks' : l.holder = SweeperTx
            /\ sweeper'.pc = "ticker"
            /\ ~loop'.returned
            /\ loop'.failed]_vars
    /\ (loop.failed ~> sweeper.pc = "running")

\* a pass that follows a failed one runs, with a row still to delete
C25_PassAfterFailure ==
    /\ loop.failed
    /\ sweeper.pc = "ticker"
    /\ loop.tick = 1
    /\ \E r \in table : Now > r.expires_at

\* the row of serial s is stored and its expires_at has passed
StoredExpired(s) == \E r \in table : r.serial = s /\ Now > r.expires_at

\* C26: with the ticker firing for ever and passes that do not fail for
\* ever, every secret nobody reads or burns leaves the table once its
\* expires_at has passed.
C26_ExpiredEventuallySwept ==
    \A s \in 1..MaxCalls : StoredExpired(s) ~> ~Stored(s)

\* an expired row nobody has read is stored, a failed pass behind it
C26_ExpiredRowWaits ==
    /\ loop.failed
    /\ \E s \in Created : StoredExpired(s) /\ reads[s] = 0

\* allow has answered a call
AllowAnswered == limiter.answer.calls > 0

\* C27: with a maximum N of at least one, a request is admitted while fewer
\* than N requests of its key were admitted within the window before it, and
\* rejected when N were: of N+1 requests within one window the last is
\* rejected, and once the window has passed a new one is admitted.
C27_WindowLimit ==
    (AllowAnswered /\ limiter.maxReq >= 1) =>
        /\ limiter.answer.before <= limiter.maxReq
        /\ limiter.answer.ok <=> limiter.answer.before < limiter.maxReq

\* the request after N admitted ones within the window is rejected
C27_OneTooManyRejected ==
    /\ AllowAnswered
    /\ limiter.maxReq = 2
    /\ ~limiter.answer.ok
    /\ limiter.answer.before = 2

\* a request admitted after the window of N admitted ones has passed
C27_AdmittedAfterWindow ==
    /\ AllowAnswered
    /\ limiter.maxReq = 1
    /\ limiter.answer.ok
    /\ Len(limiter.admitted[limiter.answer.ip]) = 2

\* the requests of key ip admitted within the window that ends at time t
AdmittedWithin(ip, t) ==
    Len(SelectSeq(limiter.admitted[ip],
                  LAMBDA req : req <= t /\ t - req < limiter.window))

\* C28: under every maximum configured and every order of the calls of allow
\* and the passes of cleanup, a request is admitted only if fewer requests
\* of its key than the maximum were admitted within the window before it,
\* the first request of a key included, so no window holds more admitted
\* requests of a key than the maximum.
C28_SlidingWindowBound ==
    /\ (AllowAnswered /\ limiter.answer.ok) => limiter.answer.before < limiter.maxReq
    /\ \A ip \in LimitKeys, t \in 0..MaxLimiterTime :
          AdmittedWithin(ip, t) <= (IF limiter.maxReq < 0 THEN 0 ELSE limiter.maxReq)

\* the step holds a call of allow that refuses, or one that admits
Refused == limiter'.answer.calls = limiter.answer.calls + 1 /\ ~limiter'.answer.ok
Admitted == limiter'.answer.calls = limiter.answer.calls + 1 /\ limiter'.answer.ok

\* task p enters CreateSecret, GetSecret or BurnSecret in the step
EntersHandler(p) ==
    calls[p].pc = "idle" /\ calls'[p].op \in {"create", "get", "burn"}

\* C29: a request the limiter refuses is answered 429 and reaches none of
\* CreateSecret, GetSecret and BurnSecret: it opens no transaction and
\* leaves the table, the locks and what was read or burned as they were;
\* and no request enters one of the three handlers unless allow admitted it.
C29_LimiterGuardsStore ==
    [][\A p \in Procs :
          /\ (Refused /\ calls'[p] # calls[p]) =>
                /\ calls'[p].pc = "done"
                /\ calls'[p].op = "limited"
                /\ calls'[p].resp = TooManyRequestsResponse
                /\ calls'[p].tx = "none"
                /\ <<table, locks, reads, burned>>' = <<table, locks, reads, burned>>
          /\ EntersHandler(p) => Admitted]_vars

\* a request for a secret that is stored, refused with 429
C29_RefusedWhileStored ==
    \E p \in Procs :
        /\ calls[p].pc = "done"
        /\ calls[p].resp.status = StatusTooManyRequests
        /\ table # {}

\* the id matches ^[A-Za-z0-9_-]{22}$
MatchesIDFormat(id) == Len(id) = 22 /\ \A i \in 1..Len(id) : id[i] \in URLSafeChars

\* task p takes a GET or a DELETE in the step
TakesGetOrDelete(p) == calls[p].pc = "idle" /\ calls'[p].op \in {"get", "burn"}

\* C30: a GET or DELETE whose id does not match the format is answered 404
\* in the step that takes it: no transaction is opened, no statement runs,
\* and the table and the locks stay as they were; an id that matches goes
\* on to the store.
C30_FormatCheckFirst ==
    [][\A p \in Procs :
          TakesGetOrDelete(p) =>
              IF MatchesIDFormat(calls'[p].id)
              THEN calls'[p].pc \in {"select", "exec"}
                      \/ (calls'[p].pc = "done" /\ calls'[p].fault # "none")
              ELSE /\ calls'[p].pc = "done"
                   /\ calls'[p].resp = respondError(StatusNotFound, "not found")
                   /\ calls'[p].tx = "none"
                   /\ calls'[p].fault = "none"
                   /\ <<table, locks, reads, burned>>' = <<table, locks, reads, burned>>]_vars

\* a GET with "+" in an id of the right length, answered 404 beside a
\* stored row
C30_PlusAnswered404 ==
    \E p \in Procs :
        /\ Answered(p, "get")
        /\ Len(calls[p].id) = 22
        /\ \E i \in 1..22 : calls[p].id[i] = "+"
        /\ calls[p].resp.status = StatusNotFound
        /\ table # {}

\* the GET of task p found its row stored but expired and answered 404
ExpiredAnswered(p) ==
    /\ Answered(p, "get")
    /\ calls[p].got # NoRow
    /\ calls[p].resp = respondError(StatusNotFound, "not found")

\* C31: a GET that finds the row stored but expired has deleted it and
\* committed when it answers 404: the row is absent then, whether or not
\* the sweeper has run.
C31_LazyExpiryDeletes ==
    \A p \in Procs :
        ExpiredAnswered(p) =>
            /\ Now > calls[p].got.expires_at
            /\ ~Stored(calls[p].got.serial)
            /\ ~HasRow(calls[p].id)
            /\ reads[calls[p].got.serial] = 0
            /\ ~\E l \in locks : l.holder = p

\* an expired row answered 404 by a GET before the sweeper's first pass
C31_ExpiredBeforeAnySweep ==
    \E p \in Procs : ExpiredAnswered(p) /\ sweeper.pc = "immediate"

\* the GET of task p has written the content of a secret to its caller
Disclosed(p) ==
    /\ Answered(p, "get")
    /\ calls[p].resp.status = StatusOK
    /\ calls[p].resp.body.kind = "secret"

\* C32: the content of a secret is written only after the DELETE of its row
\* is committed: whenever a caller has received the content of a secret,
\* the row of that secret is not in the table, and no row of its id is when
\* the response is written.
C32_DisclosedImpliesDestroyed ==
    /\ \A s \in Created : reads[s] > 0 => ~Stored(s)
    /\ \A p \in Procs :
          Disclosed(p) =>
              /\ reads[calls[p].got.serial] = 1
              /\ ~HasRow(calls[p].id)
              /\ ~\E l \in locks : l.holder = p

\* a caller has the content while another request for the same id is on its
\* way to the store
C32_DisclosedWhileOtherWaits ==
    \E p, q \in Procs :
        /\ Disclosed(p)
        /\ q # p
        /\ calls[q].pc \in {"select", "exec", "insert"}
        /\ calls[q].id = calls[p].id

\* the step is the expiration check of the GET of task p
ChecksExpiry(p) == calls[p].pc = "check" /\ calls'[p].pc # "check"

\* C33: expiry is strict and the two checks agree.  A GET whose check runs
\* at now = expires_at goes on to consume the row, and takes the expired
\* branch exactly when now > expires_at; a pass of the sweeper whose NOW()
\* equals expires_at leaves the row, and at any instant the rows the pass
\* selects are the rows a GET would find expired.
C33_StrictExpiryAgrees ==
    [][/\ \A p \in Procs :
             ChecksExpiry(p) =>
                 /\ calls'[p].pc = "commit_expired" <=> Now > calls[p].got.expires_at
                 /\ Now = calls[p].got.expires_at =>
                       \/ calls'[p].pc = "commit"
                       \/ /\ calls'[p].pc = "done"
                          /\ calls'[p].resp.status = StatusInternalServerError
       /\ WorkerCleanupBegin =>
             \A r \in table : r \in SweepTargets' <=> Now > r.expires_at
       /\ SweeperPassSucceeds =>
             \A r \in table : r.expires_at = sweeper.cutoff => r \in table']_vars

\* at the instant of expiry of a row a GET has passed its check and goes on
\* to commit the read, while a pass of the sweeper runs at that instant
C33_BoundaryReadBesidePass ==
    \E p \in Procs :
        /\ calls[p].pc = "commit"
        /\ Now = calls[p].got.expires_at
        /\ sweeper.pc = "running"
        /\ sweeper.cutoff = calls[p].got.expires_at
        /\ calls[p].got \in table

\* the errors of the rules the request tried breaks, in the order
\* ciphertext, IV, salt, TTL
BrokenRules ==
    LET found == << CheckCiphertext(probe.arg.Ciphertext, CfgMaxSecretSize),
                    CheckIV(probe.arg.IV),
                    CheckSalt(probe.arg.Salt),
                    CheckTTL(probe.arg.ExpiresIn) >>
    IN  SelectSeq(found, LAMBDA e : e # NoError)

\* C34: ValidateCreateRequest reports the first failing check in the order
\* ciphertext, IV, salt, TTL: a request that breaks rules gets the error of
\* the earliest of them and no request, a request that breaks none gets no
\* error, and the status follows that error alone.
C34_FirstFailingCheck ==
    Validation =>
        IF BrokenRules = <<>>
        THEN probe.result.err = NoError /\ probe.result.req # NoRequest
        ELSE /\ probe.result.err = Head(BrokenRules)
             /\ probe.result.req = NoRequest
             /\ ValidationStatus(probe.result.err) =
                    IF Head(BrokenRules) = ErrSecretTooLarge
                    THEN StatusRequestEntityTooLarge
                    ELSE StatusBadRequest

\* a ciphertext that is too large beside an IV, a salt and a TTL that are
\* invalid too: ErrSecretTooLarge is returned
C34_TooLargeBeforeTTL ==
    /\ Validation
    /\ BrokenRules = <<ErrSecretTooLarge, ErrInvalidIV, ErrInvalidSalt, ErrInvalidTTL>>
    /\ probe.result.err = ErrSecretTooLarge

\* the step ends the INSERT of task p while a row of its id is stored
InsertCollides(p) ==
    /\ calls[p].pc = "insert"
    /\ calls'[p].pc = "done"
    /\ HasRow(calls[p].id)

\* C35: a Create whose id is the primary key of a stored row leaves that row
\* as it is, with its ciphertext, iv, salt and expires_at, and is answered
\* with an error, not 201; the row can be consumed afterwards, and no secret
\* is read twice.
C35_CollisionKeepsRow ==
    /\ [](\A s \in Created : reads[s] <= 1)
    /\ [][\A p \in Procs :
             InsertCollides(p) =>
                 /\ table' = table
                 /\ reads' = reads
                 /\ calls'[p].resp.status = StatusInternalServerError
                 /\ calls'[p].resp.body.kind # "id"
                 /\ \E r \in table' : r.id = calls[p].id /\ r.serial # Len(reads') + 1]_vars

\* a Create has just collided with a stored row, posted later than that row
\* was, while a GET that has selected the row is about to consume it
C35_ConsumingAfterCollision ==
    \E p, q \in Procs :
        /\ Collided(p)
        /\ calls[q].op = "get"
        /\ calls[q].pc = "check"
        /\ calls[q].id = calls[p].id
        /\ calls[q].got \in table
        /\ reads[calls[q].got.serial] = 0
        /\ calls[q].got.created_at < calls[p].got.created_at

\* task p is inside a handler
InHandler(p) == calls[p].pc \notin {"idle", "done"}

\* C36: no deadlock among the operations on the store.  Every request
\* under way is answered and every statement of the sweeper ends, so that
\* again and again no task is inside a handler and no statement of the
\* sweeper is running, whatever the interleaving and whether the ids are
\* the same or not; a lock is held
\* by a GetSecret inside its transaction or by the sweeper inside its DELETE
\* statement only, and the end of either leaves none of its locks behind.
C36_NoDeadlock ==
    /\ []<>(sweeper.pc # "running" /\ \A p \in Procs : ~InHandler(p))
    /\ [](\A l \in locks :
            IF l.holder = SweeperTx
            THEN sweeper.pc = "running"
            ELSE /\ l.holder \in Procs
                 /\ calls[l.holder].op = "get"
                 /\ calls[l.holder].pc \in {"check", "commit", "commit_expired"}
                 /\ l.id = calls[l.holder].id)

\* the sweeper's statement holds the lock of one row and waits for the lock
\* of the other, which a GetSecret holds inside its transaction
C36_SweeperWaitsHoldingLock ==
    \E q \in Procs, r \in SweepTargets :
        /\ sweeper.pc = "running"
        /\ \E l \in locks : l.holder = SweeperTx /\ l.id # r.id
        /\ r.id = calls[q].id
        /\ calls[q].pc \in {"check", "commit", "commit_expired"}
        /\ \E l \in locks : l.holder = q /\ l.id = r.id


\* the timestamps of seq that lie within the window that ends at time t
InWindow(seq, t) == SelectSeq(seq, LAMBDA req : t - req < limiter.window)

\* C37: a request allow rejects is not recorded.  The rejection leaves the
\* timestamps of its key that are within the window as they were, drops
\* the others, and touches no other key; every timestamp kept for a key is
\* the time of a request of that key that was admitted, so a rejection
\* never delays the next admission.
C37_RejectedNotRecorded ==
    /\ [](\A ip \in LimitKeys :
            \A i \in 1..Len(limiter.requests[ip].times) :
                \E j \in 1..Len(limiter.admitted[ip]) :
                    limiter.admitted[ip][j] = limiter.requests[ip].times[i])
    /\ [][Refused =>
            LET ip == limiter'.answer.ip
            IN  /\ limiter'.requests[ip].times =
                       InWindow(limiter.requests[ip].times, limiter.now)
                /\ limiter'.requests[ip].exists
                /\ \A other \in LimitKeys \ {ip} :
                       limiter'.requests[other] = limiter.requests[other]
                /\ limiter'.admitted = limiter.admitted]_vars

\* a request was rejected later than every request kept for its key
C37_RejectedLater ==
    /\ AllowAnswered
    /\ ~limiter.answer.ok
    /\ limiter.maxReq >= 1
    /\ limiter.requests[limiter.answer.ip].times # <<>>
    /\ \A i \in 1..Len(limiter.requests[limiter.answer.ip].times) :
          limiter.requests[limiter.answer.ip].times[i] < limiter.answer.at

\* the step holds a call of allow
AllowStep == limiter'.answer.calls = limiter.answer.calls + 1

\* what allow answers to a request of key ip when no pass of cleanup ever
\* ran: the key is in the map once a request of it was seen, with the
\* admitted requests that are still within the window
AnswerWithoutCleanup(ip) ==
    \/ limiter.admitted[ip] = <<>>
    \/ Len(InWindow(limiter.admitted[ip], limiter.now)) < limiter.maxReq

\* C38: the cleanup of the limiter is transparent to admission.  A pass
\* deletes a key only when none of its timestamps is within the window and
\* drops no timestamp that is, and every call of allow answers as it would
\* had no pass ever run.
C38_CleanupTransparent ==
    [][/\ LimiterCleanup =>
             \A ip \in LimitKeys :
                 /\ InWindow(limiter'.requests[ip].times, limiter.now) =
                        InWindow(limiter.requests[ip].times, limiter.now)
                 /\ (limiter.requests[ip].exists /\ ~limiter'.requests[ip].exists) =>
                        InWindow(limiter.requests[ip].times, limiter.now) = <<>>
       /\ AllowStep =>
             (limiter'.answer.ok <=> AnswerWithoutCleanup(limiter'.answer.ip))]_vars

\* the same under the maxima of at least one
C38_CleanupTransparentFromOne ==
    [][(AllowStep /\ limiter.maxReq >= 1) =>
          (limiter'.answer.ok <=> AnswerWithoutCleanup(limiter'.answer.ip))]_vars

\* db.New has returned
NewReturned == probe.fn = "New" /\ probe.returned

\* the attempts that failed, among those made so far
FailedAttempts == Len(SelectSeq(probe.tried, LAMBDA t : t # "ok"))

\* C39: db.New makes at most MaxRetries attempts and always returns.  It
\* returns the DB of the first attempt whose pool creation and ping both
\* succeeded, and an error and no DB when the configuration does not parse
\* or all MaxRetries attempts failed; after the failed attempt of number i
\* it has slept i+1 seconds, except after the last.
C39_BoundedRetry ==
    /\ <>NewReturned
    /\ [](probe.fn = "New" =>
            /\ Len(probe.tried) <= MaxRetries
            /\ \A k \in 1..Len(probe.tried) :
                   probe.tried[k] = "ok" => k = Len(probe.tried)
            /\ probe.pc \in {"for", "after", "returned"} =>
                   /\ Len(probe.slept) =
                          IF FailedAttempts < MaxRetries THEN FailedAttempts
                          ELSE MaxRetries - 1
                   /\ \A k \in 1..Len(probe.slept) : probe.slept[k] = k
            /\ probe.returned =>
                   /\ probe.result.db # 0 <=> probe.result.err = "none"
                   /\ probe.result.db # 0 <=>
                          /\ probe.tried # <<>>
                          /\ probe.tried[Len(probe.tried)] = "ok"
                   /\ probe.result.db # 0 => probe.result.db = Len(probe.tried)
                   /\ probe.result.err # "none" =>
                          \/ probe.tried = <<>> /\ probe.result.err = "parse config"
                          \/ FailedAttempts = MaxRetries)

\* db.New has returned the DB of its third attempt, after a ping and a
\* pool creation that failed and waits of one and two seconds
C39_ThirdAttemptConnects ==
    /\ NewReturned
    /\ probe.tried = <<"ping", "connect", "ok">>
    /\ probe.slept = <<1, 2>>
    /\ probe.result = [db |-> 3, err |-> "none"]

\* db.New has returned an error after MaxRetries attempts that failed
C39_AllAttemptsFail ==
    /\ NewReturned
    /\ FailedAttempts = MaxRetries
    /\ probe.result.db = 0
    /\ Len(probe.slept) = MaxRetries - 1

\* the step is a submission of an incorrect passphrase for a fetched secret
SubmitsIncorrect ==
    /\ ViewSubmitPassphrase
    /\ probe.encryptedData # "null"
    /\ probe.passphrase \notin {"", "right"}

\* C40: in the ViewSecret page, a passphrase-protected secret being fetched,
\* the submission of an incorrect passphrase leaves the prompt shown and
\* the fetched ciphertext kept, so that the user can try again without
\* another GET.
C40_RetryAfterIncorrectPassphrase ==
    [][SubmitsIncorrect =>
          /\ View(probe') = "prompt"
          /\ probe'.encryptedData = probe.encryptedData
          /\ probe'.fetches = probe.fetches]_vars

\* C40, what the page does: once an incorrect passphrase was submitted, the
\* prompt is never shown again and the secret is never revealed, the
\* ciphertext fetched being kept by a page that has no way to it
C40_IncorrectPassphraseLosesSecret ==
    (probe.fn = "ViewSecret" /\ probe.wrong > 0) =>
        /\ View(probe) # "prompt"
        /\ probe.secret = "null"
        /\ ~probe.stored

\* an incorrect passphrase was submitted and the page shows the error alone,
\* holding the ciphertext it fetched
C40_PromptGone ==
    /\ probe.fn = "ViewSecret"
    /\ probe.wrong = 1
    /\ probe.encryptedData = "data"
    /\ probe.needsPassphrase
    /\ View(probe) = "unavailable"
    /\ probe.error = "Incorrect passphrase. Please try again."
====
